---- MODULE Spec2Model ----
(***************************************************************************)
(* Verification model of the guest stdio manager and service               *)
(* (internal/guest/vminit/stdio), the guest exit tracker and the           *)
(* coordinated I/O timeouts of qemubox.                                    *)
(*                                                                         *)
(* Every critical section the Go code runs under processIO.mu or           *)
(* Manager.mu is one atomic action; the code between two critical          *)
(* sections of one goroutine is the position (pc) that goroutine holds.    *)
(***************************************************************************)
EXTENDS Integers, Sequences, FiniteSets, TLC

(***************************************************************************)
(* Bounds of the model.                                                    *)
(***************************************************************************)
\* capacity of a subscriber channel; the code uses subscriberChannelBuffer
\* (manager.go:28, 64 chunks), the model a small capacity so that a full
\* queue is reached
QueueCap == 2
\* number of subscribe calls followed in one behaviour
MaxSubs == 2
\* chunks a source produces before it reports EOF: one more than a queue holds
MaxChunks == QueueCap + 1
\* appended chunks followed by the ring-buffer specification SpecBuf
MaxAppends == 10
\* subscribe calls followed by the barrier, service and exit-flow
\* specifications
WaitSubs == 1
\* chunks a source produces in the service specification: as many as fill a
\* queue, so that its EOF chunk can be dropped
WaitChunks == 2
\* exec processes of the container followed by the exit-tracker specification
MaxExecs == 2
\* Register calls on the one key followed by the lifecycle specifications
MaxRegs == 2
\* calls of each other operation (Unregister, subscribe, done-fn per
\* subscription, WriteStdin / CloseStdin) followed by them
MaxCalls == 2
\* length of the data handed to WriteStdin, and chunks a ring buffer is
\* followed to in the lifecycle specifications
MaxBytes == 2
\* Start calls on one VM instance followed by the VM specification
MaxStarts == 2
\* devices registered on the command line of one VM instance
MaxDevices == 2
\* Create calls on one shim followed by the task-service specification
MaxCreates == 3
\* concurrent operations of the task service that take its mutexes
MaxTasks == 3
\* producers calling send() on the host events channel, one event each
MaxProducers == 3
\* capacity of the host events channel in the model
EventsCap == 1
\* concurrent EnsureNetworkResources calls for one container id
MaxEnsure == 3
\* length of the file names and paths handed to the bundle package
MaxNameLen == 3
\* extra files a bundle is followed to
MaxFiles == 1
\* mounts an OCI spec has before it is relaxed
MaxMounts == 2
\* wait signals ShouldDelayInitExit makes for the container
MaxDelays == 2
\* recording calls made on the metrics, each by a goroutine of its own
MaxRecords == 2

(***************************************************************************)
(* Program constants.                                                      *)
(***************************************************************************)
maxBufferedBytes == 262144
ReadBufSize == 32768
\* seconds
subscriberWaitTimeout == 10
\* package iotimeouts, seconds
SubscriberWaitTimeout == 10
\* a host cap that leaves less than the margin the guest cap needs
HostIOWaitTimeout_short == SubscriberWaitTimeout + 10
HostIOWaitTimeout == 30

Streams == {"stdout", "stderr"}
Subs == 1..MaxSubs

\* OutputData (manager.go:57-60); seq is the position of the chunk in the
\* order the fan-out task read it from the source (0 for the EOF chunk)
DataChunk(n, l) == [seq |-> n, len |-> l, eof |-> FALSE]
EOFChunk == [seq |-> 0, len |-> 0, eof |-> TRUE]

VARIABLES
    processes,     \* Manager.processes: the set of registered keys
    registered,    \* Register has been called (a processIO exists)
    exited,        \* processIO.exited
    subsList,      \* processIO.stdoutSubs / stderrSubs: stream -> Seq(sub)
    buf,           \* processIO.stdoutBuf / stderrBuf: stream -> Seq(chunk)
    bufBytes,      \* processIO.stdoutBufBytes / stderrBufBytes
    wg,            \* processIO.wg: running fanOutReader goroutines
    subscriberWg,  \* processIO.subscriberWg
    fpc,           \* fanOutReader position per stream
    nread,         \* chunks read so far per stream
    flen,          \* byte count n of the last Read per stream
    upc,           \* position of the Unregister call
    wpc,           \* position of the WaitForIOComplete call
    spc,           \* position of each subscribe call
    sstream,       \* stream a subscriber is subscribed to
    skind,         \* who consumes the subscription: "rpc" or "direct"
    ch,            \* subscriber.ch: the queue content
    closed,        \* subscriber.ch has been closed
    pending,       \* buffered chunks sendBufferedData has still to send
    sdone,         \* subscriber.done has been closed
    hpc,           \* position of the consumer of the subscription
    placed,        \* history: every chunk ever placed on subscriber.ch
    track,         \* whether the history placed is recorded in this behaviour
    panicked,      \* a goroutine panicked (send on a closed channel)
    gclock,        \* seconds WaitForIOComplete has waited for the subscribers
    \* the exit pipeline of one process (guest exit handler, host forwarder)
    epc,           \* position of the process's TaskExit on its way to containerd
    hclock,        \* seconds the host forwarder has waited for the IOForwarder
    fwdComplete,   \* the IOForwarder has reported complete
    \* exitTracker
    activeSubscriptions, \* ids of the active subscriptions
    subExits,      \* subscription.exits: pids of the exits collected
    running,       \* pid -> Seq(process)
    runningExecs,  \* runningExecs[c] of the one container c (0: no entry)
    execEntry,     \* the map runningExecs has an entry for c
    execWaiters,   \* execWaiters[c] holds a channel
    waitClosed,    \* the channel handed out by ShouldDelayInitExit is closed
    initExits,     \* initExits[c] holds a stashed exit
    startpc,       \* position of the Start call of each process
    live,          \* the process itself: "no", "alive", "exited"
    exitpc,        \* position of the exit handler for each process
    published,     \* the TaskExit events published, in order
    \* the Manager over several registrations of one key
    mprocesses,    \* Manager.processes[key]: the processIO mapped (0: absent)
    nextPio,       \* processIO structs allocated so far
    pio,           \* the fields of each processIO
    sink,          \* the stdin sink handed to each Register call
    lsub,          \* each subscribe call and the subscriber it creates
    unreg,         \* each Unregister call
    scall,         \* the WriteStdin / CloseStdin call under way, or the last one
    lpanicked,     \* a goroutine panicked (double close, negative WaitGroup)
    \* the QEMU instance of one container
    vmState,       \* Instance.state
    cmdline,       \* devices registered for the command line, in order
    vmStart,       \* position of each Start call
    vmLast,        \* the last request made on the instance and its outcome
    \* the host task service of one shim
    taskState,     \* stateMachine.State()
    createpc,      \* position of each Create call
    createSeen,    \* the state TryStartCreating of the call found
    createReported,\* the state the call's FailedPrecondition error names
    containerMu,   \* task holding service.containerMu, 0 if unlocked
    controllerMu,  \* task holding service.controllerMu, 0 if unlocked
    taskop,        \* the kind of operation each task is running
    taskpos,       \* the step of its operation each task is at
    events,        \* service.events, the queue of the channel
    eventsChClosed,\* close(events) has run
    eventsClosed,  \* service.eventsClosed
    inflight,      \* service.inflight
    sendpc,        \* position of each producer's send()
    shutpc,        \* position of shutdown()
    sendPanicked,  \* a send reached the closed channel
    inFlight,      \* cniNetworkManager.inFlight[id]: the entry, 0 if none
    setups,        \* the setupInFlight entries made: done, result
    nextSetup,     \* entries made so far
    netpc,         \* position of each EnsureNetworkResources call
    netEntry,      \* the entry each call made or found
    netRet,        \* what each call returned
    loaded,        \* a Bundle was returned by Load
    extraFiles,    \* Bundle.extraFiles, from names to data
    bundleLast,    \* the last call on the bundle package and its error
    config,        \* config.json in the guest bundle: the OCI spec, if written
    relaxLast,     \* the last call on config.json and its error
    \* the stream handlers of the stdio service
    frames,        \* the frames each handler passed to stream.Send, in order
    hcause,        \* why each handler returned
    atCancel,      \* each handler's queue and frame count at its ctx.Done case
    \* the wait signals of the exitTracker
    waitChans,     \* the channels ShouldDelayInitExit returned: closed or not
    storedChan,    \* the channel in execWaiters[c], 0 if none
    execsStarted,  \* execs HandleStart has registered
    execsNotified, \* NotifyExecExit calls made for them
    \* the CNI metrics of the process
    metrics,       \* globalMetrics: the value of each atomic counter
    recpc,         \* position of each recording call
    recArgs,       \* the arguments of each recording call
    snappc,        \* position of the Snapshot call
    snap,          \* the MetricsSnapshot the call is filling
    snapQuiet      \* no recording call was under way during the Snapshot call

stdioVars == <<processes, registered, exited, subsList, buf, bufBytes, wg,
               subscriberWg, fpc, nread, flen, upc, wpc, spc, sstream, skind,
               ch, closed, pending, sdone, hpc, placed, track, panicked,
               gclock>>

flowVars == <<epc, hclock, fwdComplete>>

exitVars == <<activeSubscriptions, subExits, running, runningExecs,
              execEntry, execWaiters, waitClosed, initExits, startpc, live, exitpc,
              published>>

lifeVars == <<mprocesses, nextPio, pio, sink, lsub, unreg, scall, lpanicked>>

vmVars == <<vmState, cmdline, vmStart, vmLast>>

taskVars == <<taskState, createpc, createSeen, createReported>>

lockVars == <<containerMu, controllerMu, taskop, taskpos>>

eventVars == <<events, eventsChClosed, eventsClosed, inflight, sendpc, shutpc,
               sendPanicked>>

netVars == <<inFlight, setups, nextSetup, netpc, netEntry, netRet>>

bundleVars == <<loaded, extraFiles, bundleLast>>

ociVars == <<config, relaxLast>>

streamVars == <<frames, hcause, atCancel>>

waitVars == <<waitChans, storedChan, execsStarted, execsNotified>>

metricVars == <<metrics, recpc, recArgs, snappc, snap, snapQuiet>>

hostVars == <<vmVars, taskVars, lockVars, eventVars, netVars, bundleVars,
              ociVars, streamVars, waitVars,
    metricVars>>

vars == <<stdioVars, flowVars, exitVars, lifeVars, hostVars>>

nonStdioVars == <<flowVars, exitVars, lifeVars, hostVars>>

nonLifeVars == <<stdioVars, flowVars, exitVars, hostVars>>

nonHostVars == <<stdioVars, flowVars, exitVars, lifeVars>>

nonVmVars == <<nonHostVars, taskVars, lockVars, eventVars, netVars, bundleVars,
    ociVars, streamVars, waitVars,
    metricVars>>

nonTaskVars == <<nonHostVars, vmVars, lockVars, eventVars, netVars, bundleVars,
    ociVars, streamVars, waitVars,
    metricVars>>

nonLockVars == <<nonHostVars, vmVars, taskVars, eventVars, netVars, bundleVars,
    ociVars, streamVars, waitVars,
    metricVars>>

nonEventVars == <<nonHostVars, vmVars, taskVars, lockVars, netVars, bundleVars,
    ociVars, streamVars, waitVars,
    metricVars>>

nonNetVars == <<nonHostVars, vmVars, taskVars, lockVars, eventVars, bundleVars,
    ociVars, streamVars, waitVars,
    metricVars>>

nonBundleVars == <<nonHostVars, vmVars, taskVars, lockVars, eventVars, netVars,
    ociVars, streamVars, waitVars,
    metricVars>>

nonOciVars == <<nonHostVars, vmVars, taskVars, lockVars, eventVars, netVars,
    bundleVars, streamVars, waitVars,
    metricVars>>

\* what the stream handlers leave alone beside the manager's variables
nonHandlerVars == <<flowVars, exitVars, lifeVars, vmVars, taskVars, lockVars,
    eventVars, netVars, bundleVars, ociVars, waitVars,
    metricVars>>

\* what the tracker leaves alone when it counts execs and signals waiters
nonWaitVars == <<activeSubscriptions, subExits, startpc, live, exitpc,
    published, stdioVars, flowVars, lifeVars, vmVars, taskVars, lockVars,
    eventVars, netVars, bundleVars, ociVars, streamVars,
    metricVars>>

\* what the metrics leave alone
nonMetricVars == <<nonHostVars, vmVars, taskVars, lockVars, eventVars, netVars,
    bundleVars, ociVars, streamVars, waitVars>>


Key == "c1"

RECURSIVE SumLen(_)
SumLen(q) == IF q = <<>> THEN 0 ELSE Head(q).len + SumLen(Tail(q))

InSeq(x, q) == \E i \in 1..Len(q) : q[i] = x
RemoveFirst(x, q) ==
    IF InSeq(x, q)
    THEN LET i == CHOOSE j \in 1..Len(q) : q[j] = x /\ \A k \in 1..(j-1) : q[k] # x
         IN SubSeq(q, 1, i-1) \o SubSeq(q, i+1, Len(q))
    ELSE q

(***************************************************************************)
(* appendToStdoutBuffer / appendToStderrBuffer: append, then drop oldest   *)
(* entries while the byte count exceeds maxBytes.  The result is the pair  *)
(* <<buffer, byte count>>.                                                 *)
(***************************************************************************)
RECURSIVE evictLoop(_, _, _)
evictLoop(b, n, maxBytes) ==
    IF n > maxBytes /\ Len(b) > 0
    THEN evictLoop(Tail(b), n - Head(b).len, maxBytes)
    ELSE <<b, n>>

\* appendToStdoutBuffer without the eviction loop
appendToStdoutBuffer_noEvict(b, n, data, maxBytes) ==
    <<Append(b, data), n + data.len>>

appendToStdoutBuffer(b, n, data, maxBytes) ==
    evictLoop(Append(b, data), n + data.len, maxBytes)

appendToStderrBuffer(b, n, data, maxBytes) ==
    evictLoop(Append(b, data), n + data.len, maxBytes)

\* streamConfig.appendBuffer (manager.go:147-158)
appendBuffer(st, b, n, data, maxBytes) ==
    IF st = "stdout" THEN appendToStdoutBuffer(b, n, data, maxBytes)
    ELSE appendToStderrBuffer(b, n, data, maxBytes)

\* a send that makes room by dropping the oldest queued chunk
trySendEvict(q, data) ==
    IF Len(q) < QueueCap THEN Append(q, data) ELSE Append(Tail(q), data)

\* select { case sub.ch <- data: default: }  on a channel of capacity QueueCap
trySend(q, data) == IF Len(q) < QueueCap THEN Append(q, data) ELSE q
sendOK(q) == Len(q) < QueueCap

StdioInit(tr) ==
    /\ track = tr
    /\ processes = {}
    /\ registered = FALSE
    /\ exited = FALSE
    /\ subsList = [st \in Streams |-> <<>>]
    /\ buf = [st \in Streams |-> <<>>]
    /\ bufBytes = [st \in Streams |-> 0]
    /\ wg = 0
    /\ subscriberWg = 0
    /\ fpc = [st \in Streams |-> "nil"]
    /\ nread = [st \in Streams |-> 0]
    /\ flen = [st \in Streams |-> 0]
    /\ upc = "idle"
    /\ wpc = "idle"
    /\ spc = [s \in Subs |-> "idle"]
    /\ sstream = [s \in Subs |-> "stdout"]
    /\ skind = [s \in Subs |-> "rpc"]
    /\ ch = [s \in Subs |-> <<>>]
    /\ closed = [s \in Subs |-> FALSE]
    /\ pending = [s \in Subs |-> <<>>]
    /\ sdone = [s \in Subs |-> FALSE]
    /\ hpc = [s \in Subs |-> "none"]
    /\ placed = [s \in Subs |-> <<>>]
    /\ panicked = FALSE
    /\ gclock = 0

(***************************************************************************)
(* Register: installs the processIO and starts one fanOutReader per        *)
(* non-nil source.  srcs is the set of streams whose reader is non-nil.    *)
(***************************************************************************)
Register(srcs) ==
    /\ ~panicked
    /\ UNCHANGED nonStdioVars
    /\ ~registered
    /\ registered' = TRUE
    /\ processes' = processes \cup {Key}
    /\ wg' = Cardinality(srcs)
    /\ fpc' = [st \in Streams |-> IF st \in srcs THEN "read" ELSE "nil"]
    /\ UNCHANGED <<exited, subsList, buf, bufBytes, subscriberWg, nread, flen, upc,
                   wpc, spc, sstream, skind, ch, closed, pending, sdone, hpc,
                   placed, track, gclock, panicked>>

(***************************************************************************)
(* fanOutReader.  "read": blocked in reader.Read; "chunk": Read returned   *)
(* n > 0 bytes; "eof": Read returned an error (io.EOF or other); "done".   *)
(***************************************************************************)
\* reader.Read returns n > 0 bytes, n in lens, at most ReadBufSize
fanOutReader_read(st, maxChunks, lens) ==
    /\ ~panicked
    /\ UNCHANGED nonStdioVars
    /\ fpc[st] = "read"
    /\ nread[st] < maxChunks
    /\ nread' = [nread EXCEPT ![st] = @ + 1]
    /\ \E n \in lens : n <= ReadBufSize /\ flen' = [flen EXCEPT ![st] = n]
    /\ fpc' = [fpc EXCEPT ![st] = "chunk"]
    /\ UNCHANGED <<processes, registered, exited, subsList, buf, bufBytes, wg,
                   subscriberWg, upc, wpc, spc, sstream, skind, ch, closed,
                   pending, sdone, hpc, placed, track, gclock, panicked>>

fanOutReader_readErr(st) ==
    /\ ~panicked
    /\ UNCHANGED nonStdioVars
    /\ fpc[st] = "read"
    /\ fpc' = [fpc EXCEPT ![st] = "eof"]
    /\ UNCHANGED <<processes, registered, exited, subsList, buf, bufBytes, wg,
                   subscriberWg, nread, flen, upc, wpc, spc, sstream, skind, ch,
                   closed, pending, sdone, hpc, placed, track, gclock, panicked>>

\* the critical section with blocking sends (sub.ch <- data without default)
fanOutDeliverBlocking(st, data) ==
    /\ \A s \in Subs : InSeq(s, subsList[st]) => sendOK(ch[s])
    /\ IF Len(subsList[st]) = 0
       THEN LET r == appendBuffer(st, buf[st], bufBytes[st], data, maxBufferedBytes)
            IN /\ buf' = [buf EXCEPT ![st] = r[1]]
               /\ bufBytes' = [bufBytes EXCEPT ![st] = r[2]]
               /\ UNCHANGED <<ch, placed>>
       ELSE /\ ch' = [s \in Subs |->
                        IF InSeq(s, subsList[st]) THEN Append(ch[s], data) ELSE ch[s]]
            /\ placed' = [s \in Subs |->
                        IF track /\ InSeq(s, subsList[st])
                        THEN Append(placed[s], data) ELSE placed[s]]
            /\ UNCHANGED <<buf, bufBytes>>

\* the critical section of manager.go:171-184 (data) and 193-205 (EOF)
fanOutDeliver(st, data) ==
    IF Len(subsList[st]) = 0
    THEN LET r == appendBuffer(st, buf[st], bufBytes[st], data, maxBufferedBytes)
         IN /\ buf' = [buf EXCEPT ![st] = r[1]]
            /\ bufBytes' = [bufBytes EXCEPT ![st] = r[2]]
            /\ UNCHANGED <<ch, placed>>
    ELSE /\ ch' = [s \in Subs |->
                     IF InSeq(s, subsList[st]) THEN trySend(ch[s], data) ELSE ch[s]]
         /\ placed' = [s \in Subs |->
                     IF track /\ InSeq(s, subsList[st]) /\ sendOK(ch[s])
                     THEN Append(placed[s], data) ELSE placed[s]]
         /\ UNCHANGED <<buf, bufBytes>>

fanOutReader_data(st) ==
    /\ ~panicked
    /\ UNCHANGED nonStdioVars
    /\ fpc[st] = "chunk"
    /\ fanOutDeliver(st, DataChunk(nread[st], flen[st]))
    /\ fpc' = [fpc EXCEPT ![st] = "read"]
    /\ UNCHANGED <<processes, registered, exited, subsList, wg, subscriberWg,
                   nread, flen, upc, wpc, spc, sstream, skind, closed, pending,
                   sdone, hpc, track, gclock, panicked>>

fanOutReader_eof(st) ==
    /\ ~panicked
    /\ UNCHANGED nonStdioVars
    /\ fpc[st] = "eof"
    /\ fanOutDeliver(st, EOFChunk)
    /\ fpc' = [fpc EXCEPT ![st] = "done"]
    /\ wg' = wg - 1
    /\ UNCHANGED <<processes, registered, exited, subsList, subscriberWg,
                   nread, flen, upc, wpc, spc, sstream, skind, closed, pending,
                   sdone, hpc, track, gclock, panicked>>

(***************************************************************************)
(* subscribe (SubscribeStdout / SubscribeStderr).  Subscribe calls take    *)
(* the slots 1, 2, ... in order.  k is the consumer: "rpc" for the stream  *)
(* handler of service.go, "direct" for a caller that uses the done-fn.     *)
(***************************************************************************)
nextSlot(s) == spc[s] = "idle" /\ \A t \in Subs : t < s => spc[t] # "idle"

\* manager.go:346-354: the lookup under Manager.mu.  A call that does not
\* find the key returns NotFound and leaves no trace in the state: it is
\* not followed.
subscribe_lookup(s, st, k) ==
    /\ ~panicked
    /\ UNCHANGED nonStdioVars
    /\ nextSlot(s)
    /\ Key \in processes
    /\ sstream' = [sstream EXCEPT ![s] = st]
    /\ skind' = [skind EXCEPT ![s] = k]
    /\ spc' = [spc EXCEPT ![s] = "found"]
    /\ UNCHANGED <<processes, registered, exited, subsList, buf, bufBytes, wg,
                   subscriberWg, fpc, nread, flen, upc, wpc, ch, closed, pending,
                   sdone, hpc, placed, track, gclock, panicked>>

\* drainBufferLocked: the buffered chunks of the stream
drainBufferLocked(st) == buf[st]

\* subscribeToExitedProcess: a closed channel holding buffered + EOF
subscribeToExitedProcess(s, buffered) ==
    /\ ch' = [ch EXCEPT ![s] = buffered \o <<EOFChunk>>]
    /\ placed' = [placed EXCEPT ![s] =
                   IF track THEN buffered \o <<EOFChunk>> ELSE @]
    /\ closed' = [closed EXCEPT ![s] = TRUE]
    /\ spc' = [spc EXCEPT ![s] = "synthetic"]
    /\ hpc' = [hpc EXCEPT ![s] = "loop"]
    /\ UNCHANGED <<subsList, subscriberWg, pending>>

\* createActiveSubscriber: append to the stream's list, subscriberWg.Add(1)
createActiveSubscriber(s, buffered) ==
    /\ subsList' = [subsList EXCEPT ![sstream[s]] = Append(@, s)]
    /\ subscriberWg' = subscriberWg + 1
    /\ pending' = [pending EXCEPT ![s] = buffered]
    /\ spc' = [spc EXCEPT ![s] = IF buffered = <<>> THEN "active" ELSE "send"]
    /\ hpc' = [hpc EXCEPT ![s] = IF buffered = <<>> THEN "loop" ELSE "none"]
    /\ UNCHANGED <<ch, placed, closed>>

\* manager.go:356-365: the critical section under processIO.mu
subscribe_locked(s) ==
    /\ ~panicked
    /\ UNCHANGED nonStdioVars
    /\ spc[s] = "found"
    /\ LET buffered == drainBufferLocked(sstream[s])
       IN /\ buf' = [buf EXCEPT ![sstream[s]] = <<>>]
          /\ bufBytes' = [bufBytes EXCEPT ![sstream[s]] = 0]
          /\ IF exited THEN subscribeToExitedProcess(s, buffered)
                       ELSE createActiveSubscriber(s, buffered)
    /\ UNCHANGED <<processes, registered, exited, wg, fpc, nread, flen, upc, wpc,
                   sstream, skind, sdone, track, gclock, panicked>>

\* sendBufferedData: one iteration of the loop, outside the lock; subscribe
\* returns after the last one.  A send on a closed channel panics.
sendBufferedData(s) ==
    /\ ~panicked
    /\ UNCHANGED nonStdioVars
    /\ spc[s] = "send"
    /\ IF closed[s]
       THEN /\ panicked' = TRUE
            /\ UNCHANGED <<ch, placed, pending, spc, hpc>>
       ELSE /\ ch' = [ch EXCEPT ![s] = trySend(@, Head(pending[s]))]
            /\ placed' = [placed EXCEPT ![s] =
                   IF track /\ sendOK(ch[s]) THEN Append(@, Head(pending[s])) ELSE @]
            /\ pending' = [pending EXCEPT ![s] = Tail(@)]
            /\ spc' = [spc EXCEPT ![s] =
                   IF Len(pending[s]) = 1 THEN "active" ELSE "send"]
            /\ hpc' = [hpc EXCEPT ![s] =
                   IF Len(pending[s]) = 1 THEN "loop" ELSE "none"]
            /\ UNCHANGED panicked
    /\ UNCHANGED <<processes, registered, exited, subsList, buf, bufBytes, wg,
                   subscriberWg, fpc, nread, flen, upc, wpc, sstream, skind, closed,
                   sdone, track, gclock>>

\* removeSubscriber: no-op when the key is no longer in the map
removeSubscriber(s) ==
    IF Key \in processes
    THEN [subsList EXCEPT ![sstream[s]] = RemoveFirst(s, @)]
    ELSE subsList

\* the cleanup goroutine of createActiveSubscriber (manager.go:416-420):
\* <-done; removeSubscriber; subscriberWg.Done()
cleanup(s) ==
    /\ ~panicked
    /\ UNCHANGED nonStdioVars
    /\ spc[s] = "active"
    /\ sdone[s]
    /\ subsList' = removeSubscriber(s)
    /\ subscriberWg' = subscriberWg - 1
    /\ spc' = [spc EXCEPT ![s] = "cleaned"]
    /\ UNCHANGED <<processes, registered, exited, buf, bufBytes, wg, fpc,
                   nread, flen, upc, wpc, sstream, skind, ch, closed, pending,
                   sdone, hpc, placed, track, gclock, panicked>>

\* the done-fn returned by createActiveSubscriber: doneOnce.Do(close(done));
\* the done-fn of subscribeToExitedProcess is func() {}
doneFunc(s) ==
    IF spc[s] = "synthetic" THEN sdone ELSE [sdone EXCEPT ![s] = TRUE]

(***************************************************************************)
(* Unregister (manager.go:224-267).                                        *)
(***************************************************************************)
Unregister_remove ==
    /\ ~panicked
    /\ UNCHANGED nonStdioVars
    /\ upc = "idle"
    /\ Key \in processes
    /\ processes' = processes \ {Key}
    /\ upc' = "step2"
    /\ UNCHANGED <<registered, exited, subsList, buf, bufBytes, wg,
                   subscriberWg, fpc, nread, flen, wpc, spc, sstream, skind, ch,
                   closed, pending, sdone, hpc, placed, track, gclock, panicked>>

Unregister_markExited ==
    /\ ~panicked
    /\ UNCHANGED nonStdioVars
    /\ upc = "step2"
    /\ exited' = TRUE
    /\ upc' = "step3"
    /\ UNCHANGED <<processes, registered, subsList, buf, bufBytes, wg,
                   subscriberWg, fpc, nread, flen, wpc, spc, sstream, skind, ch,
                   closed, pending, sdone, hpc, placed, track, gclock, panicked>>

\* an Unregister that closes the subscriber channels without pio.wg.Wait()
Unregister_closeSubs_noWait ==
    /\ ~panicked
    /\ UNCHANGED nonStdioVars
    /\ upc = "step3"
    /\ closed' = [s \in Subs |->
                    IF \E st \in Streams : InSeq(s, subsList[st])
                    THEN TRUE ELSE closed[s]]
    /\ subsList' = [st \in Streams |-> <<>>]
    /\ upc' = "done"
    /\ UNCHANGED <<processes, registered, exited, buf, bufBytes, wg,
                   subscriberWg, fpc, nread, flen, wpc, spc, sstream, skind, ch,
                   pending, sdone, hpc, placed, track, gclock, panicked>>

\* pio.wg.Wait(), then close every subscriber channel under the lock
Unregister_closeSubs ==
    /\ ~panicked
    /\ UNCHANGED nonStdioVars
    /\ upc = "step3"
    /\ wg = 0
    /\ closed' = [s \in Subs |->
                    IF \E st \in Streams : InSeq(s, subsList[st])
                    THEN TRUE ELSE closed[s]]
    /\ subsList' = [st \in Streams |-> <<>>]
    /\ upc' = "done"
    /\ UNCHANGED <<processes, registered, exited, buf, bufBytes, wg,
                   subscriberWg, fpc, nread, flen, wpc, spc, sstream, skind, ch,
                   pending, sdone, hpc, placed, track, gclock, panicked>>

(***************************************************************************)
(* WaitForIOComplete (manager.go:491-522).                                 *)
(***************************************************************************)
WaitForIOComplete_lookup ==
    /\ ~panicked
    /\ UNCHANGED nonStdioVars
    /\ wpc = "idle"
    /\ wpc' = IF Key \in processes THEN "waitFanOut" ELSE "retAbsent"
    /\ UNCHANGED <<processes, registered, exited, subsList, buf, bufBytes, wg,
                   subscriberWg, fpc, nread, flen, upc, spc, sstream, skind, ch,
                   closed, pending, sdone, hpc, placed, track, gclock, panicked>>

\* without pio.wg.Wait()
WaitForIOComplete_fanOut_noWait ==
    /\ ~panicked
    /\ UNCHANGED nonStdioVars
    /\ wpc = "waitFanOut"
    /\ wpc' = "waitSubs"
    /\ UNCHANGED <<processes, registered, exited, subsList, buf, bufBytes, wg,
                   subscriberWg, fpc, nread, flen, upc, spc, sstream, skind, ch,
                   closed, pending, sdone, hpc, placed, track, gclock, panicked>>

\* pio.wg.Wait()
WaitForIOComplete_fanOut ==
    /\ ~panicked
    /\ UNCHANGED nonStdioVars
    /\ wpc = "waitFanOut"
    /\ wg = 0
    /\ wpc' = "waitSubs"
    /\ UNCHANGED <<processes, registered, exited, subsList, buf, bufBytes, wg,
                   subscriberWg, fpc, nread, flen, upc, spc, sstream, skind, ch,
                   closed, pending, sdone, hpc, placed, track, gclock, panicked>>

\* case <-done taken although pio.subscriberWg.Wait() has not returned
WaitForIOComplete_subsDone_early ==
    /\ ~panicked
    /\ UNCHANGED nonStdioVars
    /\ wpc = "waitSubs"
    /\ wpc' = "retDone"
    /\ UNCHANGED <<processes, registered, exited, subsList, buf, bufBytes, wg,
                   subscriberWg, fpc, nread, flen, upc, spc, sstream, skind, ch,
                   closed, pending, sdone, hpc, placed, track, gclock, panicked>>

\* case <-done: pio.subscriberWg.Wait() returned
WaitForIOComplete_subsDone ==
    /\ ~panicked
    /\ UNCHANGED nonStdioVars
    /\ wpc = "waitSubs"
    /\ subscriberWg = 0
    /\ wpc' = "retDone"
    /\ UNCHANGED <<processes, registered, exited, subsList, buf, bufBytes, wg,
                   subscriberWg, fpc, nread, flen, upc, spc, sstream, skind, ch,
                   closed, pending, sdone, hpc, placed, track, gclock, panicked>>

\* a second passes while the select of manager.go:515-521 is blocked
WaitForIOComplete_tick ==
    /\ ~panicked
    /\ UNCHANGED nonStdioVars
    /\ wpc = "waitSubs"
    /\ gclock < subscriberWaitTimeout
    /\ gclock' = gclock + 1
    /\ UNCHANGED <<processes, registered, exited, subsList, buf, bufBytes, wg,
                   subscriberWg, fpc, nread, flen, upc, wpc, spc, sstream, skind,
                   ch, closed, pending, sdone, hpc, placed, track, panicked>>

\* case <-time.After(subscriberWaitTimeout); the legacy WaitForIOComplete of
\* service.go:630-650 has no such case
WaitForIOComplete_waitForever ==
    /\ FALSE
    /\ UNCHANGED vars

WaitForIOComplete_timeout ==
    /\ ~panicked
    /\ UNCHANGED nonStdioVars
    /\ wpc = "waitSubs"
    /\ gclock = subscriberWaitTimeout
    /\ wpc' = "retTimeout"
    /\ UNCHANGED <<processes, registered, exited, subsList, buf, bufBytes, wg,
                   subscriberWg, fpc, nread, flen, upc, spc, sstream, skind, ch,
                   closed, pending, sdone, hpc, placed, track, gclock, panicked>>

(***************************************************************************)
(* The stream handler of service.go (ReadStdout / ReadStderr ->            *)
(* streamOutput -> drainAndClose), consumer of the "rpc" subscriptions.    *)
(* It returns without signalling the subscription's completion.            *)
(***************************************************************************)
handlerVarsUnchanged ==
    UNCHANGED <<processes, registered, exited, subsList, buf, bufBytes, wg,
                subscriberWg, fpc, nread, flen, upc, wpc, spc, sstream, skind,
                closed, pending, placed, track, gclock, panicked>>

\* what sendChunk or the final Send does to the handler's record
sendFrame(s, frame) == [frames EXCEPT ![s] = Append(@, frame)]

\* a chunk is received and sent (sendChunk); ok: sendChunk returned nil
streamOutput_recv(s, ok) ==
    /\ ~panicked
    /\ UNCHANGED nonHandlerVars
    /\ skind[s] = "rpc" /\ hpc[s] = "loop"
    /\ Len(ch[s]) > 0
    /\ ch' = [ch EXCEPT ![s] = Tail(@)]
    /\ frames' = sendFrame(s, Head(ch[s]))
    /\ hpc' = [hpc EXCEPT ![s] =
                 IF ~ok \/ Head(ch[s]).eof THEN "ret" ELSE "loop"]
    /\ hcause' = [hcause EXCEPT ![s] =
                 IF ~ok THEN "sendErr" ELSE IF Head(ch[s]).eof THEN "eof" ELSE @]
    /\ UNCHANGED <<sdone, atCancel>>
    /\ handlerVarsUnchanged

\* the channel is closed and empty: send a final EOF frame and return
streamOutput_closed(s) ==
    /\ ~panicked
    /\ UNCHANGED nonHandlerVars
    /\ skind[s] = "rpc" /\ hpc[s] = "loop"
    /\ Len(ch[s]) = 0 /\ closed[s]
    /\ frames' = sendFrame(s, EOFChunk)
    /\ hpc' = [hpc EXCEPT ![s] = "ret"]
    /\ hcause' = [hcause EXCEPT ![s] = "closed"]
    /\ UNCHANGED <<ch, sdone, atCancel>>
    /\ handlerVarsUnchanged

\* case <-ctx.Done() of the blocking select: go on in drainAndClose
streamOutput_cancel(s) ==
    /\ ~panicked
    /\ UNCHANGED nonHandlerVars
    /\ skind[s] = "rpc" /\ hpc[s] = "loop"
    /\ hpc' = [hpc EXCEPT ![s] = "drain"]
    /\ atCancel' = [atCancel EXCEPT ![s] =
                      [taken |-> TRUE, queue |-> ch[s], sent |-> Len(frames[s])]]
    /\ UNCHANGED <<ch, sdone, frames, hcause>>
    /\ handlerVarsUnchanged

\* a drain that stops at the first chunk it sends
drainAndClose_recv_once(s, ok) ==
    /\ ~panicked
    /\ UNCHANGED nonHandlerVars
    /\ skind[s] = "rpc" /\ hpc[s] = "drain"
    /\ Len(ch[s]) > 0
    /\ ch' = [ch EXCEPT ![s] = Tail(@)]
    /\ frames' = sendFrame(s, Head(ch[s]))
    /\ hpc' = [hpc EXCEPT ![s] = "ret"]
    /\ hcause' = [hcause EXCEPT ![s] =
                 IF ~ok THEN "sendErr" ELSE IF Head(ch[s]).eof THEN "eof"
                 ELSE "empty"]
    /\ UNCHANGED <<sdone, atCancel>>
    /\ handlerVarsUnchanged

drainAndClose_recv(s, ok) ==
    /\ ~panicked
    /\ UNCHANGED nonHandlerVars
    /\ skind[s] = "rpc" /\ hpc[s] = "drain"
    /\ Len(ch[s]) > 0
    /\ ch' = [ch EXCEPT ![s] = Tail(@)]
    /\ frames' = sendFrame(s, Head(ch[s]))
    /\ hpc' = [hpc EXCEPT ![s] =
                 IF ~ok \/ Head(ch[s]).eof THEN "ret" ELSE "drain"]
    /\ hcause' = [hcause EXCEPT ![s] =
                 IF ~ok THEN "sendErr" ELSE IF Head(ch[s]).eof THEN "eof" ELSE @]
    /\ UNCHANGED <<sdone, atCancel>>
    /\ handlerVarsUnchanged

\* a drain that sends a second EOF frame when it finds the channel closed
drainAndClose_empty_twoEOF(s) ==
    /\ ~panicked
    /\ UNCHANGED nonHandlerVars
    /\ skind[s] = "rpc" /\ hpc[s] = "drain"
    /\ Len(ch[s]) = 0
    /\ hpc' = [hpc EXCEPT ![s] = "ret"]
    /\ IF closed[s]
       THEN /\ frames' = [frames EXCEPT ![s] = @ \o <<EOFChunk, EOFChunk>>]
            /\ hcause' = [hcause EXCEPT ![s] = "closed"]
       ELSE /\ hcause' = [hcause EXCEPT ![s] = "empty"]
            /\ UNCHANGED frames
    /\ UNCHANGED <<ch, sdone, atCancel>>
    /\ handlerVarsUnchanged

\* closed channel: the final EOF frame; or nothing left to drain (default)
drainAndClose_empty(s) ==
    /\ ~panicked
    /\ UNCHANGED nonHandlerVars
    /\ skind[s] = "rpc" /\ hpc[s] = "drain"
    /\ Len(ch[s]) = 0
    /\ hpc' = [hpc EXCEPT ![s] = "ret"]
    /\ IF closed[s]
       THEN /\ frames' = sendFrame(s, EOFChunk)
            /\ hcause' = [hcause EXCEPT ![s] = "closed"]
       ELSE /\ hcause' = [hcause EXCEPT ![s] = "empty"]
            /\ UNCHANGED frames
    /\ UNCHANGED <<ch, sdone, atCancel>>
    /\ handlerVarsUnchanged

(***************************************************************************)
(* A direct caller of SubscribeStdout / SubscribeStderr, as in             *)
(* TestManagerWaitForIOComplete: receive until EOF or close, then done();  *)
(* or give up (timeout, deferred done()) at any time.                      *)
(***************************************************************************)
caller_recv(s) ==
    /\ ~panicked
    /\ UNCHANGED nonStdioVars
    /\ skind[s] = "direct" /\ hpc[s] = "loop"
    /\ Len(ch[s]) > 0
    /\ ch' = [ch EXCEPT ![s] = Tail(@)]
    /\ IF Head(ch[s]).eof
       THEN hpc' = [hpc EXCEPT ![s] = "ret"] /\ sdone' = doneFunc(s)
       ELSE UNCHANGED <<hpc, sdone>>
    /\ handlerVarsUnchanged

caller_done(s) ==
    /\ ~panicked
    /\ UNCHANGED nonStdioVars
    /\ skind[s] = "direct" /\ hpc[s] = "loop"
    /\ hpc' = [hpc EXCEPT ![s] = "ret"]
    /\ sdone' = doneFunc(s)
    /\ UNCHANGED ch
    /\ handlerVarsUnchanged

(***************************************************************************)
(* The way of one process's TaskExit from the guest to containerd: the     *)
(* guest exit handler calls WaitForIOComplete and publishes the event; the *)
(* host forwarder waits for the IOForwarder, at most HostIOWaitTimeout,    *)
(* and forwards it.                                                        *)
(***************************************************************************)
FlowInit ==
    /\ epc = "running"
    /\ hclock = 0
    /\ fwdComplete = FALSE

\* the registered process exits
process_exit ==
    /\ epc = "running"
    /\ registered
    /\ epc' = "exited"
    /\ UNCHANGED <<hclock, fwdComplete, stdioVars, exitVars, lifeVars, hostVars>>

\* the guest publishes TaskExit once WaitForIOComplete has returned
guest_publish ==
    /\ epc = "exited"
    /\ wpc \in {"retAbsent", "retDone", "retTimeout"}
    /\ epc' = "published"
    /\ UNCHANGED <<hclock, fwdComplete, stdioVars, exitVars, lifeVars, hostVars>>

\* the host forwarder receives the guest's TaskExit and starts waiting
host_receive ==
    /\ epc = "published"
    /\ epc' = "hostWait"
    /\ hclock' = 0
    /\ UNCHANGED <<fwdComplete, stdioVars, exitVars, lifeVars, hostVars>>

\* a second passes while the host waits
host_tick ==
    /\ epc = "hostWait"
    /\ ~fwdComplete
    /\ hclock < HostIOWaitTimeout
    /\ hclock' = hclock + 1
    /\ UNCHANGED <<epc, fwdComplete, stdioVars, exitVars, lifeVars, hostVars>>

\* the IOForwarder reports complete
forwarder_complete ==
    /\ epc \in {"published", "hostWait"}
    /\ ~fwdComplete
    /\ fwdComplete' = TRUE
    /\ UNCHANGED <<epc, hclock, stdioVars, exitVars, lifeVars, hostVars>>

\* forward: the IOForwarder is complete, or the cap is reached
host_forward ==
    /\ epc = "hostWait"
    /\ fwdComplete \/ hclock = HostIOWaitTimeout
    /\ epc' = "forwarded"
    /\ UNCHANGED <<hclock, fwdComplete, stdioVars, exitVars, lifeVars, hostVars>>

(***************************************************************************)
(* exitTracker, for one container c.  Process 0 is the init process, the   *)
(* processes 1..MaxExecs are execs; process p runs with pid p + 1.         *)
(***************************************************************************)
Procs == 0..MaxExecs
pidOf(p) == p + 1
Pids == {pidOf(p) : p \in Procs}
isInit(p) == p = 0

ExitInit ==
    /\ activeSubscriptions = {}
    /\ subExits = [p \in Procs |-> {}]
    /\ running = [pid \in Pids |-> <<>>]
    /\ runningExecs = 0
    /\ execEntry = FALSE
    /\ execWaiters = FALSE
    /\ waitClosed = FALSE
    /\ initExits = FALSE
    /\ startpc = [p \in Procs |-> "none"]
    /\ live = [p \in Procs |-> "no"]
    /\ exitpc = [p \in Procs |-> "none"]
    /\ published = <<>>

\* Subscribe(nil), called by Start before the process is started; an exec
\* is started in a container whose init has been started
Subscribe(p) ==
    /\ startpc[p] = "none"
    /\ ~isInit(p) => startpc[0] = "registered"
    /\ activeSubscriptions' = activeSubscriptions \cup {p}
    /\ startpc' = [startpc EXCEPT ![p] = "subscribed"]
    /\ UNCHANGED <<subExits, running, runningExecs, execEntry, execWaiters,
                   waitClosed, initExits, live, exitpc, published, stdioVars,
                   flowVars, lifeVars, hostVars>>

\* a process of another container that runs with the same pid (pids can
\* alias for a moment); the processes of c are the members of Procs
otherProc(pid) == MaxExecs + pid

ofContainer(e) == e \in Procs

RECURSIVE withoutContainer(_)
withoutContainer(cps) ==
    IF cps = <<>> THEN <<>>
    ELSE IF ofContainer(Head(cps)) THEN withoutContainer(Tail(cps))
         ELSE <<Head(cps)>> \o withoutContainer(Tail(cps))

\* HandleStart of the other container's process, registered under pid
other_HandleStart(pid) ==
    /\ ~InSeq(otherProc(pid), running[pid])
    /\ running' = [running EXCEPT ![pid] = Append(@, otherProc(pid))]
    /\ UNCHANGED <<activeSubscriptions, subExits, runningExecs, execEntry,
                   execWaiters, waitClosed, initExits, startpc, live, exitpc,
                   published, stdioVars, flowVars, lifeVars, hostVars>>

\* a Subscribe(c) that deletes the whole list running[c.Pid()]
Subscribe_restart_deleteAll ==
    /\ startpc[0] = "registered"
    /\ activeSubscriptions' = activeSubscriptions \cup {0}
    /\ subExits' = [subExits EXCEPT ![0] = {}]
    /\ running' = [running EXCEPT ![pidOf(0)] = <<>>]
    /\ startpc' = [startpc EXCEPT ![0] = "subscribed"]
    /\ exitpc' = [exitpc EXCEPT ![0] = "none"]
    /\ UNCHANGED <<runningExecs, execEntry, execWaiters, waitClosed, initExits,
                   live, published, stdioVars, flowVars, lifeVars, hostVars>>

\* Subscribe(c) with c # nil: the init of c is started again; c.Pid() is
\* the pid of the init that was registered
Subscribe_restart ==
    /\ startpc[0] = "registered"
    /\ activeSubscriptions' = activeSubscriptions \cup {0}
    /\ subExits' = [subExits EXCEPT ![0] = {}]
    /\ running' = [running EXCEPT ![pidOf(0)] = withoutContainer(@)]
    /\ startpc' = [startpc EXCEPT ![0] = "subscribed"]
    /\ exitpc' = [exitpc EXCEPT ![0] = "none"]
    /\ UNCHANGED <<runningExecs, execEntry, execWaiters, waitClosed, initExits,
                   live, published, stdioVars, flowVars, lifeVars, hostVars>>

\* the OCI runtime starts the process and reports its pid
container_Start(p) ==
    /\ startpc[p] = "subscribed"
    /\ ~isInit(p) => live[0] = "alive"
    /\ live' = [live EXCEPT ![p] = "alive"]
    /\ startpc' = [startpc EXCEPT ![p] = "launched"]
    /\ UNCHANGED <<activeSubscriptions, subExits, running, runningExecs, execEntry,
                   execWaiters, waitClosed, initExits, exitpc, published,
                   stdioVars, flowVars, lifeVars, hostVars>>

\* the start fails: HandleStart will be called with pid 0
container_StartFails(p) ==
    /\ startpc[p] = "subscribed"
    /\ startpc' = [startpc EXCEPT ![p] = "failed"]
    /\ UNCHANGED <<activeSubscriptions, subExits, running, runningExecs, execEntry,
                   execWaiters, waitClosed, initExits, live, exitpc, published,
                   stdioVars, flowVars, lifeVars, hostVars>>

\* HandleStart that does not look at the exits collected
HandleStart_noEarlyCheck(p) ==
    /\ startpc[p] \in {"launched", "failed"}
    /\ LET pid == IF startpc[p] = "failed" THEN 0 ELSE pidOf(p)
       IN /\ activeSubscriptions' = activeSubscriptions \ {p}
          /\ IF pid = 0
             THEN /\ startpc' = [startpc EXCEPT ![p] = "notStarted"]
                  /\ UNCHANGED <<running, runningExecs, execEntry>>
             ELSE /\ running' = [running EXCEPT ![pid] = Append(@, p)]
                  /\ runningExecs' = IF isInit(p) THEN runningExecs
                                     ELSE runningExecs + 1
                  /\ execEntry' = IF isInit(p) THEN execEntry ELSE TRUE
                  /\ startpc' = [startpc EXCEPT ![p] = "registered"]
    /\ UNCHANGED <<subExits, execWaiters, waitClosed, initExits, live, exitpc,
                   published, stdioVars, flowVars, lifeVars, hostVars>>

\* HandleStart(c, p, pid); the early exits it returns are handled by Start
HandleStart(p) ==
    /\ startpc[p] \in {"launched", "failed"}
    /\ LET pid == IF startpc[p] = "failed" THEN 0 ELSE pidOf(p)
           earlyExits == pid \in subExits[p]
       IN /\ activeSubscriptions' = activeSubscriptions \ {p}
          /\ IF pid = 0 \/ earlyExits
             THEN /\ startpc' = [startpc EXCEPT ![p] =
                                   IF earlyExits THEN "early" ELSE "notStarted"]
                  /\ exitpc' = [exitpc EXCEPT ![p] =
                                   IF earlyExits THEN "notified" ELSE @]
                  /\ UNCHANGED <<running, runningExecs, execEntry>>
             ELSE /\ running' = [running EXCEPT ![pid] = Append(@, p)]
                  /\ runningExecs' = IF isInit(p) THEN runningExecs
                                     ELSE runningExecs + 1
                  /\ execEntry' = IF isInit(p) THEN execEntry ELSE TRUE
                  /\ startpc' = [startpc EXCEPT ![p] = "registered"]
                  /\ UNCHANGED exitpc
    /\ UNCHANGED <<subExits, execWaiters, waitClosed, initExits, live,
                   published, stdioVars, flowVars, lifeVars, hostVars>>

\* Cancel that leaves the subscription in place
Cancel_noDelete(p) ==
    /\ startpc[p] \in {"subscribed", "failed"}
    /\ startpc' = [startpc EXCEPT ![p] = "cancelled"]
    /\ UNCHANGED <<activeSubscriptions, subExits, running, runningExecs,
                   execEntry, execWaiters, waitClosed, initExits, live, exitpc,
                   published, stdioVars, flowVars, lifeVars, hostVars>>

\* Cancel(), called by a Start that gives up without calling HandleStart
Cancel(p) ==
    /\ startpc[p] \in {"subscribed", "failed"}
    /\ activeSubscriptions' = activeSubscriptions \ {p}
    /\ startpc' = [startpc EXCEPT ![p] = "cancelled"]
    /\ UNCHANGED <<subExits, running, runningExecs, execEntry, execWaiters,
                   waitClosed, initExits, live, exitpc, published, stdioVars,
                   flowVars, lifeVars, hostVars>>

\* NotifyExit that does not hand the exit to the active subscriptions
NotifyExit_noSubs(p) ==
    /\ live[p] = "alive"
    /\ live' = [live EXCEPT ![p] = "exited"]
    /\ LET pid == pidOf(p)
           cps == running[pid]
       IN /\ running' = [running EXCEPT ![pid] = <<>>]
          /\ initExits' = (initExits \/ \E i \in 1..Len(cps) : isInit(cps[i]))
          /\ exitpc' = [q \in Procs |->
                          IF \E i \in 1..Len(cps) : cps[i] = q
                          THEN "notified" ELSE exitpc[q]]
    /\ UNCHANGED <<activeSubscriptions, subExits, runningExecs, execEntry,
                   execWaiters, waitClosed, startpc, published, stdioVars,
                   flowVars, lifeVars, hostVars>>

\* the process exits and the reaper calls NotifyExit(e) with e.Pid = pid of p;
\* the container processes returned go to the exit handler
NotifyExit(p) ==
    /\ live[p] = "alive"
    /\ live' = [live EXCEPT ![p] = "exited"]
    /\ LET pid == pidOf(p)
           cps == running[pid]
       IN /\ subExits' = [q \in Procs |->
                            IF q \in activeSubscriptions
                            THEN subExits[q] \cup {pid} ELSE subExits[q]]
          /\ running' = [running EXCEPT ![pid] = <<>>]
          /\ initExits' = (initExits \/ \E i \in 1..Len(cps) : isInit(cps[i]))
          /\ exitpc' = [q \in Procs |->
                          IF \E i \in 1..Len(cps) : cps[i] = q
                          THEN "notified" ELSE exitpc[q]]
    /\ UNCHANGED <<activeSubscriptions, runningExecs, execEntry, execWaiters,
                   waitClosed, startpc, published, stdioVars, flowVars,
                   lifeVars, hostVars>>

\* the handler of an init exit calls ShouldDelayInitExit(c)
ShouldDelayInitExit ==
    /\ exitpc[0] = "notified"
    /\ LET numExecs == runningExecs
       IN IF numExecs = 0
          THEN /\ exitpc' = [exitpc EXCEPT ![0] = "publish"]
               /\ execEntry' = FALSE
               /\ UNCHANGED <<execWaiters, waitClosed>>
          ELSE /\ execWaiters' = TRUE
               /\ waitClosed' = FALSE
               /\ exitpc' = [exitpc EXCEPT ![0] = "waiting"]
               /\ UNCHANGED execEntry
    /\ UNCHANGED <<activeSubscriptions, subExits, running, runningExecs,
                   initExits, startpc, live, published, stdioVars, flowVars,
                   lifeVars, hostVars>>

\* delayed: the handler waits for the returned signal
handler_waitSignal ==
    /\ exitpc[0] = "waiting"
    /\ waitClosed
    /\ exitpc' = [exitpc EXCEPT ![0] = "publish"]
    /\ UNCHANGED <<activeSubscriptions, subExits, running, runningExecs, execEntry,
                   execWaiters, waitClosed, initExits, startpc, live,
                   published, stdioVars, flowVars, lifeVars, hostVars>>

\* the TaskExit of the init process is published
handler_publishInit ==
    /\ exitpc[0] = "publish"
    /\ published' = Append(published, 0)
    /\ exitpc' = [exitpc EXCEPT ![0] = "done"]
    /\ UNCHANGED <<activeSubscriptions, subExits, running, runningExecs, execEntry,
                   execWaiters, waitClosed, initExits, startpc, live,
                   stdioVars, flowVars, lifeVars, hostVars>>

\* the TaskExit of an exec process is published
handler_publishExec(p) ==
    /\ ~isInit(p)
    /\ exitpc[p] = "notified"
    /\ published' = Append(published, p)
    /\ exitpc' = [exitpc EXCEPT ![p] = "published"]
    /\ UNCHANGED <<activeSubscriptions, subExits, running, runningExecs, execEntry,
                   execWaiters, waitClosed, initExits, startpc, live,
                   stdioVars, flowVars, lifeVars, hostVars>>

\* NotifyExecExit that closes the stored signal whatever the count
NotifyExecExit_closeAlways(p) ==
    /\ ~isInit(p)
    /\ exitpc[p] = "published"
    /\ runningExecs' = runningExecs - 1
    /\ execEntry' = (runningExecs - 1 # 0)
    /\ IF execWaiters
       THEN waitClosed' = TRUE /\ execWaiters' = FALSE
       ELSE UNCHANGED <<waitClosed, execWaiters>>
    /\ exitpc' = [exitpc EXCEPT ![p] = "done"]
    /\ UNCHANGED <<activeSubscriptions, subExits, running, initExits, startpc,
                   live, published, stdioVars, flowVars, lifeVars, hostVars>>

\* ... and the handler calls NotifyExecExit(c)
NotifyExecExit(p) ==
    /\ ~isInit(p)
    /\ exitpc[p] = "published"
    /\ runningExecs' = runningExecs - 1
    /\ execEntry' = (runningExecs - 1 # 0)
    /\ IF runningExecs - 1 = 0 /\ execWaiters
       THEN waitClosed' = TRUE /\ execWaiters' = FALSE
       ELSE UNCHANGED <<waitClosed, execWaiters>>
    /\ exitpc' = [exitpc EXCEPT ![p] = "done"]
    /\ UNCHANGED <<activeSubscriptions, subExits, running, initExits, startpc,
                   live, published, stdioVars, flowVars, lifeVars, hostVars>>

\* DecrementExecCount(c) is NotifyExecExit(c); it is for a start that failed
\* without a HandleStart call, that is a Start that called Cancel
DecrementExecCount(p) ==
    /\ ~isInit(p)
    /\ startpc[p] = "cancelled"
    /\ runningExecs' = runningExecs - 1
    /\ execEntry' = (runningExecs - 1 # 0)
    /\ IF runningExecs - 1 = 0 /\ execWaiters
       THEN waitClosed' = TRUE /\ execWaiters' = FALSE
       ELSE UNCHANGED <<waitClosed, execWaiters>>
    /\ startpc' = [startpc EXCEPT ![p] = "decremented"]
    /\ UNCHANGED <<activeSubscriptions, subExits, running, initExits, exitpc,
                   live, published, stdioVars, flowVars, lifeVars, hostVars>>

(***************************************************************************)
(* The wait signals of the tracker, for one container c whose init has     *)
(* been registered: every channel ShouldDelayInitExit makes is followed,   *)
(* with the calls that count execs, signal the waiter and clean up.        *)
(***************************************************************************)
WaitInit ==
    /\ waitChans = <<>>
    /\ storedChan = 0
    /\ execsStarted = 0
    /\ execsNotified = 0

\* HandleStart(c, p, pid) of an exec that started and has not exited
tracker_HandleStart ==
    /\ execsStarted < MaxExecs
    /\ execsStarted' = execsStarted + 1
    /\ running' = [running EXCEPT ![pidOf(execsStarted + 1)] =
                      Append(@, execsStarted + 1)]
    /\ runningExecs' = runningExecs + 1
    /\ execEntry' = TRUE
    /\ UNCHANGED <<waitChans, storedChan, execsNotified, execWaiters,
                   waitClosed, initExits, nonWaitVars>>

\* ShouldDelayInitExit(c), by the handler of an init exit or by another caller
tracker_ShouldDelayInitExit ==
    /\ Len(waitChans) < MaxDelays
    /\ IF runningExecs = 0
       THEN /\ execEntry' = FALSE
            /\ UNCHANGED <<waitChans, storedChan>>
       ELSE /\ waitChans' = Append(waitChans, FALSE)
            /\ storedChan' = Len(waitChans) + 1
            /\ UNCHANGED execEntry
    /\ UNCHANGED <<execsStarted, execsNotified, running, runningExecs,
                   execWaiters, waitClosed, initExits, nonWaitVars>>

\* NotifyExecExit(c), once for every exec that was registered
tracker_NotifyExecExit ==
    /\ execsNotified < execsStarted
    /\ execsNotified' = execsNotified + 1
    /\ runningExecs' = runningExecs - 1
    /\ execEntry' = (runningExecs - 1 # 0)
    /\ IF runningExecs - 1 = 0 /\ storedChan # 0
       THEN /\ waitChans' = [waitChans EXCEPT ![storedChan] = TRUE]
            /\ storedChan' = 0
       ELSE UNCHANGED <<waitChans, storedChan>>
    /\ UNCHANGED <<execsStarted, running, execWaiters, waitClosed, initExits,
                   nonWaitVars>>

\* Cleanup(c)
Cleanup ==
    /\ initExits' = FALSE
    /\ runningExecs' = 0
    /\ execEntry' = FALSE
    /\ storedChan' = 0
    /\ running' = [pid \in Pids |-> <<>>]
    /\ UNCHANGED <<waitChans, execsStarted, execsNotified, execWaiters,
                   waitClosed, nonWaitVars>>

(***************************************************************************)
(* The Manager over the registrations of one key.  Every Register call     *)
(* allocates a processIO (1, 2, ...); callers hold the processIO pointer   *)
(* they looked up.  The content of chunks and queues is followed by the    *)
(* definitions above; here a ring buffer is the number of chunks it        *)
(* holds, and the process has the stdout source only.                      *)
(***************************************************************************)
Pios == 1..MaxRegs
Calls == 1..MaxCalls

\* &processIO{stdin, stdoutReader, exitChan: make(chan struct{})}
\* (manager.go:116-121) with wg.Add(1) for a non-nil stdout (manager.go:128-131)
FreshPIO(hasStdin, hasStdout) ==
    [stdin |-> hasStdin,          \* pio.stdin # nil
     stdinClosed |-> FALSE,
     stdoutSubs |-> <<>>,
     stdoutBuf |-> 0,
     exited |-> FALSE,
     exitChanCloses |-> 0,        \* close(pio.exitChan) calls
     wg |-> IF hasStdout THEN 1 ELSE 0,
     subscriberWg |-> 0,
     closeCalls |-> 0]            \* history: CloseStdin calls that got the lock

\* the stdin sink (io.WriteCloser): Close calls and bytes it accepted
FreshSink == [closes |-> 0, written |-> 0]

IdleSub == [pc |-> "idle", pio |-> 0, rm |-> 0, chCloses |-> 0,
            doneOnce |-> FALSE, doneCloses |-> 0, calls |-> 0]
IdleUnreg == [pc |-> "idle", pio |-> 0, seen |-> FALSE]
IdleCall == [pc |-> "idle", op |-> "none", pio |-> 0, len |-> 0,
             code |-> "none", n |-> 0, k |-> 0]

LifeInit ==
    /\ mprocesses = 0
    /\ nextPio = 0
    /\ pio = [g \in Pios |-> FreshPIO(FALSE, FALSE)]
    /\ sink = [g \in Pios |-> FreshSink]
    /\ lsub = [s \in Calls |-> IdleSub]
    /\ unreg = [u \in Calls |-> IdleUnreg]
    /\ scall = IdleCall
    /\ lpanicked = FALSE

\* the calls of one operation take the slots 1, 2, ... in order
nextCall(f, i) == f[i].pc = "idle" /\ \A j \in Calls : j < i => f[j].pc # "idle"

\* HasProcess (manager.go:465-473)
HasProcess == mprocesses # 0

\* Register (manager.go:113-138): m.processes[key] = pio, whatever the key
\* mapped to before
Manager_Register(hasStdin, hasStdout) ==
    /\ ~lpanicked
    /\ UNCHANGED nonLifeVars
    /\ nextPio < MaxRegs
    /\ nextPio' = nextPio + 1
    /\ pio' = [pio EXCEPT ![nextPio + 1] = FreshPIO(hasStdin, hasStdout)]
    /\ mprocesses' = nextPio + 1
    /\ UNCHANGED <<sink, lsub, unreg, scall, lpanicked>>

\* fanOutReader of processIO g, a chunk read (manager.go:167-185): buffered
\* when there is no subscriber, sent to the subscribers' queues otherwise
Manager_fanOutReader_data(g, maxBuf) ==
    /\ ~lpanicked
    /\ UNCHANGED nonLifeVars
    /\ g <= nextPio
    /\ pio[g].wg > 0
    /\ pio[g].stdoutSubs = <<>>
    /\ pio[g].stdoutBuf < maxBuf
    /\ pio' = [pio EXCEPT ![g].stdoutBuf = @ + 1]
    /\ UNCHANGED <<mprocesses, nextPio, sink, lsub, unreg, scall, lpanicked>>

\* the source ends (manager.go:187-207); defer pio.wg.Done()
Manager_fanOutReader_eof(g) ==
    /\ ~lpanicked
    /\ UNCHANGED nonLifeVars
    /\ g <= nextPio
    /\ pio[g].wg > 0
    /\ pio' = [pio EXCEPT ![g].wg = @ - 1,
                          ![g].stdoutBuf =
                              IF pio[g].stdoutSubs = <<>> THEN @ + 1 ELSE @]
    /\ UNCHANGED <<mprocesses, nextPio, sink, lsub, unreg, scall, lpanicked>>

(***************************************************************************)
(* Unregister (manager.go:224-267), call u.                                *)
(***************************************************************************)
\* step 1 without the !ok return: goes on with the processIO allocated last
Manager_Unregister_remove_noCheck(u) ==
    /\ ~lpanicked
    /\ UNCHANGED nonLifeVars
    /\ nextCall(unreg, u)
    /\ nextPio > 0
    /\ mprocesses' = 0
    /\ unreg' = [unreg EXCEPT ![u] = [pc |-> "step2", pio |-> nextPio,
                                      seen |-> FALSE]]
    /\ UNCHANGED <<nextPio, pio, sink, lsub, scall, lpanicked>>

\* step 1 (manager.go:228-235)
Manager_Unregister_remove(u) ==
    /\ ~lpanicked
    /\ UNCHANGED nonLifeVars
    /\ nextCall(unreg, u)
    /\ IF mprocesses = 0
       THEN /\ unreg' = [unreg EXCEPT ![u].pc = "retAbsent"]
            /\ UNCHANGED mprocesses
       ELSE /\ mprocesses' = 0
            /\ unreg' = [unreg EXCEPT ![u] = [pc |-> "step2", pio |-> mprocesses,
                                              seen |-> FALSE]]
    /\ UNCHANGED <<nextPio, pio, sink, lsub, scall, lpanicked>>

\* step 2 (manager.go:238-241); closing a closed channel panics
Manager_Unregister_markExited(u) ==
    /\ ~lpanicked
    /\ UNCHANGED nonLifeVars
    /\ unreg[u].pc = "step2"
    /\ LET g == unreg[u].pio
       IN /\ pio' = [pio EXCEPT ![g].exited = TRUE, ![g].exitChanCloses = @ + 1]
          /\ lpanicked' = (pio[g].exitChanCloses > 0)
    /\ unreg' = [unreg EXCEPT ![u].pc = "step3"]
    /\ UNCHANGED <<mprocesses, nextPio, sink, lsub, scall>>

\* steps 3 and 4 (manager.go:245-259): pio.wg.Wait(), then close every
\* subscriber channel under the lock
Manager_Unregister_closeSubs(u) ==
    /\ ~lpanicked
    /\ UNCHANGED nonLifeVars
    /\ unreg[u].pc = "step3"
    /\ LET g == unreg[u].pio
       IN /\ pio[g].wg = 0
          /\ lsub' = [s \in Calls |->
                        IF InSeq(s, pio[g].stdoutSubs)
                        THEN [lsub[s] EXCEPT !.chCloses = @ + 1] ELSE lsub[s]]
          /\ lpanicked' = \E s \in Calls :
                              InSeq(s, pio[g].stdoutSubs) /\ lsub[s].chCloses > 0
          /\ pio' = [pio EXCEPT ![g].stdoutSubs = <<>>]
    /\ unreg' = [unreg EXCEPT ![u].pc = "step5"]
    /\ UNCHANGED <<mprocesses, nextPio, sink, scall>>

\* step 5, the condition (manager.go:262), read without pio.mu
Manager_Unregister_readStdin(u) ==
    /\ ~lpanicked
    /\ UNCHANGED nonLifeVars
    /\ unreg[u].pc = "step5"
    /\ LET g == unreg[u].pio
       IN unreg' = [unreg EXCEPT ![u].pc = "close",
                                 ![u].seen = pio[g].stdin /\ ~pio[g].stdinClosed]
    /\ UNCHANGED <<mprocesses, nextPio, pio, sink, lsub, scall, lpanicked>>

\* step 5, pio.stdin.Close() (manager.go:263); its error is ignored
Manager_Unregister_closeStdin(u) ==
    /\ ~lpanicked
    /\ UNCHANGED nonLifeVars
    /\ unreg[u].pc = "close"
    /\ LET g == unreg[u].pio
       IN sink' = IF unreg[u].seen THEN [sink EXCEPT ![g].closes = @ + 1]
                  ELSE sink
    /\ unreg' = [unreg EXCEPT ![u].pc = "done"]
    /\ UNCHANGED <<mprocesses, nextPio, pio, lsub, scall, lpanicked>>

(***************************************************************************)
(* subscribe (manager.go:345-369), call s, and the subscriber it creates.  *)
(***************************************************************************)
\* the lookup without the !ok return: goes on with the processIO allocated
\* last
Manager_subscribe_lookup_noCheck(s) ==
    /\ ~lpanicked
    /\ UNCHANGED nonLifeVars
    /\ nextCall(lsub, s)
    /\ nextPio > 0
    /\ lsub' = [lsub EXCEPT ![s].pc = "found", ![s].pio = nextPio]
    /\ UNCHANGED <<mprocesses, nextPio, pio, sink, unreg, scall, lpanicked>>

\* manager.go:348-354
Manager_subscribe_lookup(s) ==
    /\ ~lpanicked
    /\ UNCHANGED nonLifeVars
    /\ nextCall(lsub, s)
    /\ lsub' = IF mprocesses = 0
               THEN [lsub EXCEPT ![s].pc = "notFound"]
               ELSE [lsub EXCEPT ![s].pc = "found", ![s].pio = mprocesses]
    /\ UNCHANGED <<mprocesses, nextPio, pio, sink, unreg, scall, lpanicked>>

\* manager.go:356-365: drainBufferLocked, then subscribeToExitedProcess (a
\* channel of its own, closed, and func() {} as done-fn) or
\* createActiveSubscriber (append to the list, subscriberWg.Add(1))
Manager_subscribe_locked(s) ==
    /\ ~lpanicked
    /\ UNCHANGED nonLifeVars
    /\ lsub[s].pc = "found"
    /\ LET g == lsub[s].pio
       IN IF pio[g].exited
          THEN /\ pio' = [pio EXCEPT ![g].stdoutBuf = 0]
               /\ lsub' = [lsub EXCEPT ![s].pc = "synthetic", ![s].chCloses = 1]
          ELSE /\ pio' = [pio EXCEPT ![g].stdoutBuf = 0,
                                     ![g].stdoutSubs = Append(@, s),
                                     ![g].subscriberWg = @ + 1]
               /\ lsub' = [lsub EXCEPT ![s].pc = "active"]
    /\ UNCHANGED <<mprocesses, nextPio, sink, unreg, scall, lpanicked>>

\* a done-fn that closes done on every call
Manager_doneFunc_noOnce(s) ==
    /\ ~lpanicked
    /\ UNCHANGED nonLifeVars
    /\ lsub[s].pc \in {"active", "removing", "cleaned", "synthetic"}
    /\ lsub[s].calls < MaxCalls
    /\ IF lsub[s].pc = "synthetic"
       THEN /\ lsub' = [lsub EXCEPT ![s].calls = @ + 1]
            /\ UNCHANGED lpanicked
       ELSE /\ lsub' = [lsub EXCEPT ![s].calls = @ + 1, ![s].doneOnce = TRUE,
                                    ![s].doneCloses = @ + 1]
            /\ lpanicked' = (lsub[s].doneCloses > 0)
    /\ UNCHANGED <<mprocesses, nextPio, pio, sink, unreg, scall>>

\* the done-fn is called (manager.go:422-425): doneOnce.Do(close(done));
\* the done-fn of subscribeToExitedProcess does nothing (manager.go:398)
Manager_doneFunc(s) ==
    /\ ~lpanicked
    /\ UNCHANGED nonLifeVars
    /\ lsub[s].pc \in {"active", "removing", "cleaned", "synthetic"}
    /\ lsub[s].calls < MaxCalls
    /\ IF lsub[s].pc = "synthetic" \/ lsub[s].doneOnce
       THEN /\ lsub' = [lsub EXCEPT ![s].calls = @ + 1]
            /\ UNCHANGED lpanicked
       ELSE /\ lsub' = [lsub EXCEPT ![s].calls = @ + 1, ![s].doneOnce = TRUE,
                                    ![s].doneCloses = @ + 1]
            /\ lpanicked' = (lsub[s].doneCloses > 0)
    /\ UNCHANGED <<mprocesses, nextPio, pio, sink, unreg, scall>>

\* the cleanup goroutine (manager.go:416-420) has received from done and
\* removeSubscriber looks the key up (manager.go:444-450)
Manager_removeSubscriber_lookup(s) ==
    /\ ~lpanicked
    /\ UNCHANGED nonLifeVars
    /\ lsub[s].pc = "active"
    /\ lsub[s].doneCloses > 0
    /\ lsub' = [lsub EXCEPT ![s].pc = "removing", ![s].rm = mprocesses]
    /\ UNCHANGED <<mprocesses, nextPio, pio, sink, unreg, scall, lpanicked>>

\* removeSubscriber that drops the first subscriber of the list it finds
Manager_removeSubscriber_remove_first(s) ==
    /\ ~lpanicked
    /\ UNCHANGED nonLifeVars
    /\ lsub[s].pc = "removing"
    /\ LET g == lsub[s].pio
           r == lsub[s].rm
           p1 == IF r # 0 THEN [pio EXCEPT ![r].stdoutSubs =
                                   IF @ = <<>> THEN @ ELSE Tail(@)]
                 ELSE pio
       IN /\ pio' = [p1 EXCEPT ![g].subscriberWg = @ - 1]
          /\ lpanicked' = (pio[g].subscriberWg - 1 < 0)
    /\ lsub' = [lsub EXCEPT ![s].pc = "cleaned"]
    /\ UNCHANGED <<mprocesses, nextPio, sink, unreg, scall>>

\* removeSubscriber under pio.mu of the processIO found (manager.go:452-461),
\* then pio.subscriberWg.Done() on the subscriber's own processIO
\* (manager.go:419); a negative WaitGroup counter panics
Manager_removeSubscriber_remove(s) ==
    /\ ~lpanicked
    /\ UNCHANGED nonLifeVars
    /\ lsub[s].pc = "removing"
    /\ LET g == lsub[s].pio
           r == lsub[s].rm
           p1 == IF r # 0 THEN [pio EXCEPT ![r].stdoutSubs = RemoveFirst(s, @)]
                 ELSE pio
       IN /\ pio' = [p1 EXCEPT ![g].subscriberWg = @ - 1]
          /\ lpanicked' = (pio[g].subscriberWg - 1 < 0)
    /\ lsub' = [lsub EXCEPT ![s].pc = "cleaned"]
    /\ UNCHANGED <<mprocesses, nextPio, sink, unreg, scall>>

(***************************************************************************)
(* WriteStdin (manager.go:270-298) and CloseStdin (manager.go:301-327),    *)
(* called one after the other, beside Unregister.  The outcome of the      *)
(* sink's Write and Close is the sink's.                                   *)
(***************************************************************************)
\* manager.go:273-279 and 304-310: the lookup under Manager.mu
Manager_stdin_lookup(op, len) ==
    /\ ~lpanicked
    /\ UNCHANGED nonLifeVars
    /\ scall.pc \in {"idle", "ret"}
    /\ scall.k < MaxCalls
    /\ scall' = IF mprocesses = 0
                THEN [IdleCall EXCEPT !.k = scall.k + 1, !.pc = "ret", !.op = op,
                                      !.len = len, !.code = "NotFound"]
                ELSE [IdleCall EXCEPT !.k = scall.k + 1, !.pc = "found",
                                      !.op = op, !.len = len, !.pio = mprocesses]
    /\ UNCHANGED <<mprocesses, nextPio, pio, sink, lsub, unreg, lpanicked>>

\* WriteStdin under pio.mu (manager.go:281-297).  pio.stdin.Write returns
\* n = len(data) and no error, or an error and the n <= len(data) bytes it
\* wrote before it; a sink that has been closed takes nothing.
Manager_WriteStdin ==
    /\ ~lpanicked
    /\ UNCHANGED nonLifeVars
    /\ scall.pc = "found" /\ scall.op = "write"
    /\ LET g == scall.pio
       IN IF pio[g].stdinClosed \/ ~pio[g].stdin
          THEN /\ scall' = [scall EXCEPT !.pc = "ret",
                                         !.code = "FailedPrecondition"]
               /\ UNCHANGED sink
          ELSE \E n \in 0..scall.len, ok \in BOOLEAN :
                 /\ ok => n = scall.len
                 /\ sink[g].closes > 0 => (~ok /\ n = 0)
                 /\ sink' = [sink EXCEPT ![g].written = @ + n]
                 /\ scall' = [scall EXCEPT !.pc = "ret", !.n = n,
                                !.code = IF ok THEN "OK" ELSE "WriteFailed"]
    /\ UNCHANGED <<mprocesses, nextPio, pio, lsub, unreg, lpanicked>>

\* CloseStdin that does not set stdinClosed
Manager_CloseStdin_noFlag ==
    /\ ~lpanicked
    /\ UNCHANGED nonLifeVars
    /\ scall.pc = "found" /\ scall.op = "close"
    /\ LET g == scall.pio
       IN /\ sink' = IF pio[g].stdin THEN [sink EXCEPT ![g].closes = @ + 1]
                     ELSE sink
          /\ pio' = [pio EXCEPT ![g].closeCalls = @ + 1]
          /\ scall' = [scall EXCEPT !.pc = "ret", !.code = "OK"]
    /\ UNCHANGED <<mprocesses, nextPio, lsub, unreg, lpanicked>>

\* CloseStdin under pio.mu (manager.go:312-326).  ok is the outcome of
\* pio.stdin.Close(): on an error the call returns it and leaves
\* stdinClosed as it was.
Manager_CloseStdin ==
    /\ ~lpanicked
    /\ UNCHANGED nonLifeVars
    /\ scall.pc = "found" /\ scall.op = "close"
    /\ LET g == scall.pio
       IN IF pio[g].stdinClosed
          THEN /\ scall' = [scall EXCEPT !.pc = "ret",
                                         !.code = "FailedPrecondition"]
               /\ pio' = [pio EXCEPT ![g].closeCalls = @ + 1]
               /\ UNCHANGED sink
          ELSE IF pio[g].stdin
          THEN \E ok \in BOOLEAN :
                 /\ sink' = [sink EXCEPT ![g].closes = @ + 1]
                 /\ pio' = [pio EXCEPT ![g].closeCalls = @ + 1,
                                       ![g].stdinClosed = ok]
                 /\ scall' = [scall EXCEPT !.pc = "ret",
                                !.code = IF ok THEN "OK" ELSE "CloseFailed"]
          ELSE /\ pio' = [pio EXCEPT ![g].closeCalls = @ + 1,
                                     ![g].stdinClosed = TRUE]
               /\ scall' = [scall EXCEPT !.pc = "ret", !.code = "OK"]
               /\ UNCHANGED sink
    /\ UNCHANGED <<mprocesses, nextPio, lsub, unreg, lpanicked>>

(***************************************************************************)
(* The QEMU instance (internal/host/vm/qemu): its state machine            *)
(* vmStateNew -> vmStateStarting -> vmStateRunning -> vmStateShutdown, and *)
(* the devices registered before Start.  The state is one atomic value;    *)
(* the package documentation gives the transitions and the order of calls. *)
(***************************************************************************)
vmStateNew == "vmStateNew"
vmStateStarting == "vmStateStarting"
vmStateRunning == "vmStateRunning"
vmStateShutdown == "vmStateShutdown"
VMStates == {vmStateNew, vmStateStarting, vmStateRunning, vmStateShutdown}

Starters == 1..MaxStarts
Devices == {"disk", "tap"}

NoRequest == [op |-> "none", from |-> vmStateNew, ok |-> TRUE]

VMInit ==
    /\ vmState = vmStateNew
    /\ cmdline = <<>>
    /\ vmStart = [c \in Starters |-> "idle"]
    /\ vmLast = NoRequest

\* state.CompareAndSwap(from, to): the value stored and whether it swapped
CompareAndSwap(st, from, to) ==
    IF st = from THEN [ok |-> TRUE, state |-> to]
    ELSE [ok |-> FALSE, state |-> st]

\* a transition that stores vmStateStarting without comparing
transitionToStarting_store(st) == [ok |-> TRUE, state |-> vmStateStarting]

\* transitionToStarting(): the only transition out of vmStateNew
transitionToStarting(st) == CompareAndSwap(st, vmStateNew, vmStateStarting)

\* the transition Start makes once the guest is ready
transitionToRunning(st) == CompareAndSwap(st, vmStateStarting, vmStateRunning)

\* transitionToShutdown(): from any state
transitionToShutdown(st) == [ok |-> st # vmStateShutdown, state |-> vmStateShutdown]

\* Start(): transitionToStarting, then the launch of the QEMU process
Instance_Start(c) ==
    /\ vmStart[c] = "idle"
    /\ LET r == transitionToStarting(vmState)
       IN /\ vmState' = r.state
          /\ vmStart' = [vmStart EXCEPT ![c] = IF r.ok THEN "launching"
                                               ELSE "rejected"]
          /\ vmLast' = [op |-> "Start", from |-> vmState, ok |-> r.ok]
    /\ UNCHANGED <<cmdline, nonVmVars>>

\* Start(): the guest is ready, the instance becomes running
Instance_Start_ready(c) ==
    /\ vmStart[c] = "launching"
    /\ LET r == transitionToRunning(vmState)
       IN /\ vmState' = r.state
          /\ vmStart' = [vmStart EXCEPT ![c] = IF r.ok THEN "running"
                                               ELSE "failed"]
          /\ vmLast' = [op |-> "Running", from |-> vmState, ok |-> r.ok]
    /\ UNCHANGED <<cmdline, nonVmVars>>

\* Start(): the launch fails, (error) -> vmStateShutdown
Instance_Start_error(c) ==
    /\ vmStart[c] = "launching"
    /\ LET r == transitionToShutdown(vmState)
       IN /\ vmState' = r.state
          /\ vmStart' = [vmStart EXCEPT ![c] = "failed"]
          /\ vmLast' = [op |-> "StartError", from |-> vmState, ok |-> r.ok]
    /\ UNCHANGED <<cmdline, nonVmVars>>

\* Shutdown(): transitionToShutdown, then the QEMU process is stopped
Instance_Shutdown ==
    /\ LET r == transitionToShutdown(vmState)
       IN /\ vmState' = r.state
          /\ vmLast' = [op |-> "Shutdown", from |-> vmState, ok |-> r.ok]
    /\ UNCHANGED <<cmdline, vmStart, nonVmVars>>

\* a device registration that does not look at the state
AddDisk_noCheck(d) ==
    /\ Len(cmdline) < MaxDevices
    /\ cmdline' = Append(cmdline, d)
    /\ vmLast' = [op |-> "AddDisk", from |-> vmState, ok |-> TRUE]
    /\ UNCHANGED <<vmState, vmStart, nonVmVars>>

\* AddDisk(disk): devices are added before Start()
AddDisk(d) ==
    /\ Len(cmdline) < MaxDevices
    /\ IF vmState = vmStateNew
       THEN /\ cmdline' = Append(cmdline, d)
            /\ vmLast' = [op |-> "AddDisk", from |-> vmState, ok |-> TRUE]
       ELSE /\ UNCHANGED cmdline
            /\ vmLast' = [op |-> "AddDisk", from |-> vmState, ok |-> FALSE]
    /\ UNCHANGED <<vmState, vmStart, nonVmVars>>

\* AddTAPNIC(nic): devices are added before Start()
AddTAPNIC(n) ==
    /\ Len(cmdline) < MaxDevices
    /\ IF vmState = vmStateNew
       THEN /\ cmdline' = Append(cmdline, n)
            /\ vmLast' = [op |-> "AddTAPNIC", from |-> vmState, ok |-> TRUE]
       ELSE /\ UNCHANGED cmdline
            /\ vmLast' = [op |-> "AddTAPNIC", from |-> vmState, ok |-> FALSE]
    /\ UNCHANGED <<vmState, vmStart, nonVmVars>>

(***************************************************************************)
(* The host task service (internal/shim/task).  Create claims the state    *)
(* machine with TryStartCreating, reports FailedPrecondition with          *)
(* stateMachine.State() when refused, and on an error forces the state     *)
(* back to StateIdle in a deferred function.                               *)
(***************************************************************************)
StateIdle == "StateIdle"
StateCreating == "StateCreating"
StateCreated == "StateCreated"

Creators == 1..MaxCreates

TaskInit ==
    /\ taskState = StateIdle
    /\ createpc = [c \in Creators |-> "idle"]
    /\ createSeen = [c \in Creators |-> "none"]
    /\ createReported = [c \in Creators |-> "none"]

\* stateMachine.TryStartCreating(): compare-and-swap StateIdle -> StateCreating
TryStartCreating(st) == CompareAndSwap(st, StateIdle, StateCreating)

\* Create: if !s.stateMachine.TryStartCreating() { ... }
service_Create_try(c) ==
    /\ createpc[c] = "idle"
    /\ LET r == TryStartCreating(taskState)
       IN /\ taskState' = r.state
          /\ createpc' = [createpc EXCEPT ![c] = IF r.ok THEN "creating"
                                                 ELSE "refused"]
          /\ createSeen' = [createSeen EXCEPT ![c] = taskState]
    /\ UNCHANGED <<createReported, nonTaskVars>>

\* Create, refused: the error is built from s.stateMachine.State()
service_Create_refused(c) ==
    /\ createpc[c] = "refused"
    /\ createReported' = [createReported EXCEPT ![c] = taskState]
    /\ createpc' = [createpc EXCEPT ![c] = "FailedPrecondition"]
    /\ UNCHANGED <<taskState, createSeen, nonTaskVars>>

\* Create: the work succeeded, s.stateMachine.MarkCreated()
service_Create_ok(c) ==
    /\ createpc[c] = "creating"
    /\ taskState' = StateCreated
    /\ createpc' = [createpc EXCEPT ![c] = "created"]
    /\ UNCHANGED <<createSeen, createReported, nonTaskVars>>

\* a failing Create whose deferred function does not restore the state
service_Create_err_noRestore(c) ==
    /\ createpc[c] = "creating"
    /\ createpc' = [createpc EXCEPT ![c] = "error"]
    /\ UNCHANGED <<taskState, createSeen, createReported, nonTaskVars>>

\* Create: the work failed; the deferred function sees err != nil and calls
\* s.stateMachine.ForceTransition(lifecycle.StateIdle)
service_Create_err(c) ==
    /\ createpc[c] = "creating"
    /\ taskState' = StateIdle
    /\ createpc' = [createpc EXCEPT ![c] = "error"]
    /\ UNCHANGED <<createSeen, createReported, nonTaskVars>>

(***************************************************************************)
(* The two mutexes of the task service.  An operation follows one of the   *)
(* documented patterns: both mutexes, containerMu first; collect under     *)
(* containerMu, release, then the slow operation; controllerMu alone.      *)
(***************************************************************************)
Tasks == 1..MaxTasks
Ops == {"both", "collect", "controller"}

\* both mutexes taken controllerMu first
Plan_controllerFirst(op) ==
    CASE op = "both" -> <<"controllerMu.Lock", "containerMu.Lock",
                          "containerMu.Unlock", "controllerMu.Unlock">>
      [] op = "collect" -> <<"containerMu.Lock", "containerMu.Unlock", "slow">>
      [] op = "controller" -> <<"controllerMu.Lock", "controllerMu.Unlock">>

\* the steps of an operation, in order
Plan(op) ==
    CASE op = "both" -> <<"containerMu.Lock", "controllerMu.Lock",
                          "controllerMu.Unlock", "containerMu.Unlock">>
      [] op = "collect" -> <<"containerMu.Lock", "containerMu.Unlock", "slow">>
      [] op = "controller" -> <<"controllerMu.Lock", "controllerMu.Unlock">>

\* the step task t is about to make, "none" when it runs no operation
NextStep(t) == IF taskop[t] = "none" THEN "none" ELSE Plan(taskop[t])[taskpos[t]]

\* the task has made its step: to the next one, or the operation is over
advance(t) ==
    IF taskpos[t] = Len(Plan(taskop[t]))
    THEN /\ taskop' = [taskop EXCEPT ![t] = "none"]
         /\ taskpos' = [taskpos EXCEPT ![t] = 0]
    ELSE /\ taskpos' = [taskpos EXCEPT ![t] = @ + 1]
         /\ UNCHANGED taskop

LockInit ==
    /\ containerMu = 0
    /\ controllerMu = 0
    /\ taskop = [t \in Tasks |-> "none"]
    /\ taskpos = [t \in Tasks |-> 0]

\* a task service operation begins
service_operation(t, op) ==
    /\ taskop[t] = "none"
    /\ taskop' = [taskop EXCEPT ![t] = op]
    /\ taskpos' = [taskpos EXCEPT ![t] = 1]
    /\ UNCHANGED <<containerMu, controllerMu, nonLockVars>>

\* s.containerMu.Lock()
containerMu_Lock(t) ==
    /\ NextStep(t) = "containerMu.Lock"
    /\ containerMu = 0
    /\ containerMu' = t
    /\ advance(t)
    /\ UNCHANGED <<controllerMu, nonLockVars>>

\* s.containerMu.Unlock()
containerMu_Unlock(t) ==
    /\ NextStep(t) = "containerMu.Unlock"
    /\ containerMu' = 0
    /\ advance(t)
    /\ UNCHANGED <<controllerMu, nonLockVars>>

\* s.controllerMu.Lock()
controllerMu_Lock(t) ==
    /\ NextStep(t) = "controllerMu.Lock"
    /\ controllerMu = 0
    /\ controllerMu' = t
    /\ advance(t)
    /\ UNCHANGED <<containerMu, nonLockVars>>

\* s.controllerMu.Unlock()
controllerMu_Unlock(t) ==
    /\ NextStep(t) = "controllerMu.Unlock"
    /\ controllerMu' = 0
    /\ advance(t)
    /\ UNCHANGED <<containerMu, nonLockVars>>

\* the slow operation: guest RPC, vsock dial, CNI call, forwarder Shutdown
slowOperation(t) ==
    /\ NextStep(t) = "slow"
    /\ advance(t)
    /\ UNCHANGED <<containerMu, controllerMu, nonLockVars>>

(***************************************************************************)
(* The host events channel: many producers call send(), one consumer       *)
(* forwards, shutdown sets eventsClosed and closes the channel.  send()    *)
(* counts itself in inflight before it looks at eventsClosed, and shutdown *)
(* closes the channel only when inflight is zero.                          *)
(***************************************************************************)
Producers == 1..MaxProducers

EventInit ==
    /\ events = <<>>
    /\ eventsChClosed = FALSE
    /\ eventsClosed = FALSE
    /\ inflight = 0
    /\ sendpc = [p \in Producers |-> "idle"]
    /\ shutpc = "running"
    /\ sendPanicked = FALSE

\* send(evt): s.inflight.Add(1)
send_enter(p) ==
    /\ sendpc[p] = "idle"
    /\ inflight' = inflight + 1
    /\ sendpc' = [sendpc EXCEPT ![p] = "check"]
    /\ UNCHANGED <<events, eventsChClosed, eventsClosed, shutpc, sendPanicked,
                   nonEventVars>>

\* send(evt): if s.eventsClosed.Load() the event is dropped
send_check(p) ==
    /\ sendpc[p] = "check"
    /\ IF eventsClosed
       THEN /\ inflight' = inflight - 1
            /\ sendpc' = [sendpc EXCEPT ![p] = "dropped"]
       ELSE /\ sendpc' = [sendpc EXCEPT ![p] = "send"]
            /\ UNCHANGED inflight
    /\ UNCHANGED <<events, eventsChClosed, eventsClosed, shutpc, sendPanicked,
                   nonEventVars>>

\* send(evt): s.events <- evt, which panics on a closed channel and blocks
\* on a full one
send_write(p) ==
    /\ sendpc[p] = "send"
    /\ IF eventsChClosed
       THEN /\ sendPanicked' = TRUE
            /\ sendpc' = [sendpc EXCEPT ![p] = "panic"]
            /\ UNCHANGED <<events, inflight>>
       ELSE /\ Len(events) < EventsCap
            /\ events' = Append(events, p)
            /\ inflight' = inflight - 1
            /\ sendpc' = [sendpc EXCEPT ![p] = "sent"]
            /\ UNCHANGED sendPanicked
    /\ UNCHANGED <<eventsChClosed, eventsClosed, shutpc, nonEventVars>>

\* the consumer takes an event off the channel and forwards it
forward_receive ==
    /\ events # <<>>
    /\ events' = Tail(events)
    /\ UNCHANGED <<eventsChClosed, eventsClosed, inflight, sendpc, shutpc,
                   sendPanicked, nonEventVars>>

\* shutdown(): s.eventsClosed.Store(true)
shutdown_setClosed ==
    /\ shutpc = "running"
    /\ eventsClosed' = TRUE
    /\ shutpc' = "closing"
    /\ UNCHANGED <<events, eventsChClosed, inflight, sendpc, sendPanicked,
                   nonEventVars>>

\* a shutdown that closes the channel with sends in flight
shutdown_close_noWait ==
    /\ shutpc = "closing"
    /\ eventsChClosed' = TRUE
    /\ shutpc' = "closed"
    /\ UNCHANGED <<events, eventsClosed, inflight, sendpc, sendPanicked,
                   nonEventVars>>

\* shutdown(): close(s.events) once no send is in flight
shutdown_close ==
    /\ shutpc = "closing"
    /\ inflight = 0
    /\ eventsChClosed' = TRUE
    /\ shutpc' = "closed"
    /\ UNCHANGED <<events, eventsClosed, inflight, sendpc, sendPanicked,
                   nonEventVars>>

(***************************************************************************)
(* EnsureNetworkResources for one container id: the calls coordinate       *)
(* through cniNetworkManager.inFlight; the first makes a setupInFlight     *)
(* entry and runs CNI ADD, the others wait on the entry's done channel.    *)
(***************************************************************************)
Callers == 1..MaxEnsure
Setups == 1..MaxEnsure
CNIOutcomes == {"result", "err"}

NetInit ==
    /\ inFlight = 0
    /\ setups = [e \in Setups |-> [done |-> FALSE, outcome |-> "none"]]
    /\ nextSetup = 0
    /\ netpc = [c \in Callers |-> "idle"]
    /\ netEntry = [c \in Callers |-> 0]
    /\ netRet = [c \in Callers |-> "none"]

\* a lookup that makes a new entry whether or not one is in flight
ensureNetworkResources_lookup_noCheck(c) ==
    /\ netpc[c] = "idle"
    /\ nextSetup' = nextSetup + 1
    /\ inFlight' = nextSetup + 1
    /\ netEntry' = [netEntry EXCEPT ![c] = nextSetup + 1]
    /\ netpc' = [netpc EXCEPT ![c] = "adding"]
    /\ UNCHANGED <<setups, netRet, nonNetVars>>

\* under inflightMu: an entry in flight is waited on, else one is made
ensureNetworkResources_lookup(c) ==
    /\ netpc[c] = "idle"
    /\ IF inFlight # 0
       THEN /\ netEntry' = [netEntry EXCEPT ![c] = inFlight]
            /\ netpc' = [netpc EXCEPT ![c] = "waiting"]
            /\ UNCHANGED <<inFlight, nextSetup>>
       ELSE /\ nextSetup' = nextSetup + 1
            /\ inFlight' = nextSetup + 1
            /\ netEntry' = [netEntry EXCEPT ![c] = nextSetup + 1]
            /\ netpc' = [netpc EXCEPT ![c] = "adding"]
    /\ UNCHANGED <<setups, netRet, nonNetVars>>

\* the call that made the entry runs CNI ADD and stores result or err in it
ensureNetworkResources_setup(c, out) ==
    /\ netpc[c] = "adding"
    /\ setups' = [setups EXCEPT ![netEntry[c]].outcome = out]
    /\ netpc' = [netpc EXCEPT ![c] = "completing"]
    /\ UNCHANGED <<inFlight, nextSetup, netEntry, netRet, nonNetVars>>

\* setup complete: the entry is deleted from inFlight and done is closed
ensureNetworkResources_complete(c) ==
    /\ netpc[c] = "completing"
    /\ inFlight' = IF inFlight = netEntry[c] THEN 0 ELSE inFlight
    /\ setups' = [setups EXCEPT ![netEntry[c]].done = TRUE]
    /\ netRet' = [netRet EXCEPT ![c] = setups[netEntry[c]].outcome]
    /\ netpc' = [netpc EXCEPT ![c] = "returned"]
    /\ UNCHANGED <<nextSetup, netEntry, nonNetVars>>

\* a waiting call: <-inflight.done, then the entry's result or err
ensureNetworkResources_wait(c) ==
    /\ netpc[c] = "waiting"
    /\ setups[netEntry[c]].done
    /\ netRet' = [netRet EXCEPT ![c] = setups[netEntry[c]].outcome]
    /\ netpc' = [netpc EXCEPT ![c] = "returned"]
    /\ UNCHANGED <<inFlight, setups, nextSetup, netEntry, nonNetVars>>

(***************************************************************************)
(* Package bundle: Load and AddExtraFile.  A name is a sequence of         *)
(* characters; "a" stands for any character other than "." and "/", and    *)
(* the one-element name ConfigJSON for the name "config.json".  An error   *)
(* is "plain" when it wraps no errdefs error, else the errdefs error it    *)
(* wraps.                                                                  *)
(***************************************************************************)
NameChars == {"a", ".", "/"}
ConfigJSON == <<"config.json">>
Names == UNION {[1..n -> NameChars] : n \in 0..MaxNameLen} \cup {ConfigJSON}
FileData == {"d1", "d2"}
LoadOutcomes == {"readFails", "parseFails", "nilRoot", "ok"}

\* the elements of a path between its separators
RECURSIVE splitPath(_, _, _, _)
splitPath(s, i, cur, acc) ==
    IF i > Len(s) THEN Append(acc, cur)
    ELSE IF s[i] = "/" THEN splitPath(s, i + 1, <<>>, Append(acc, cur))
    ELSE splitPath(s, i + 1, Append(cur, s[i]), acc)

\* filepath.Clean, the elements: empty and "." elements are dropped, ".."
\* removes the element before it, is dropped at the root and kept otherwise
RECURSIVE cleanElems(_, _, _, _)
cleanElems(elems, i, rooted, out) ==
    IF i > Len(elems) THEN out
    ELSE LET e == elems[i]
         IN IF e = <<>> \/ e = <<".">>
            THEN cleanElems(elems, i + 1, rooted, out)
            ELSE IF e = <<".", ".">>
            THEN IF out # <<>> /\ out[Len(out)] # <<".", ".">>
                 THEN cleanElems(elems, i + 1, rooted, SubSeq(out, 1, Len(out) - 1))
                 ELSE IF rooted
                 THEN cleanElems(elems, i + 1, rooted, out)
                 ELSE cleanElems(elems, i + 1, rooted, Append(out, e))
            ELSE cleanElems(elems, i + 1, rooted, Append(out, e))

\* the elements joined by separators
RECURSIVE joinPath(_, _)
joinPath(elems, i) ==
    IF i > Len(elems) THEN <<>>
    ELSE IF i = Len(elems) THEN elems[i]
    ELSE elems[i] \o <<"/">> \o joinPath(elems, i + 1)

\* filepath.Clean(name)
Clean(name) ==
    IF name = <<>> THEN <<".">>
    ELSE LET rooted == name[1] = "/"
             body == joinPath(cleanElems(splitPath(name, 1, <<>>, <<>>), 1,
                                         rooted, <<>>), 1)
         IN IF rooted THEN <<"/">> \o body
            ELSE IF body = <<>> THEN <<".">> ELSE body

\* name without its trailing separators
RECURSIVE stripTrailing(_)
stripTrailing(s) ==
    IF s # <<>> /\ s[Len(s)] = "/" THEN stripTrailing(SubSeq(s, 1, Len(s) - 1))
    ELSE s

\* filepath.Base(name)
Base(name) ==
    IF name = <<>> THEN <<".">>
    ELSE LET t == stripTrailing(name)
         IN IF t = <<>> THEN <<"/">>
            ELSE LET elems == splitPath(t, 1, <<>>, <<>>)
                 IN elems[Len(elems)]

NoError == "nil"
PlainError == "plain"
ErrInvalidArgument == "ErrInvalidArgument"

\* errdefs.IsInvalidArgument(err)
IsInvalidArgument(err) == err = ErrInvalidArgument

\* the error AddExtraFile returns for a name
addExtraFileError(name) ==
    IF name = <<>> THEN PlainError
    ELSE IF name = ConfigJSON THEN PlainError
    ELSE LET cleaned == Clean(name)
         IN IF cleaned # name \/ Base(name) # name
               \/ cleaned = <<".", ".">> \/ cleaned = <<".">>
            THEN PlainError
            ELSE NoError

BundleInit ==
    /\ loaded = FALSE
    /\ extraFiles = <<>>
    /\ bundleLast = [op |-> "none", arg |-> <<>>, err |-> NoError]

\* Load(ctx, path): the empty path is refused before anything is read
Load(path, outcome) ==
    /\ LET err == IF path = <<>> THEN PlainError
                  ELSE IF outcome \in {"readFails", "parseFails"} THEN PlainError
                  ELSE IF outcome = "nilRoot" THEN ErrInvalidArgument
                  ELSE NoError
       IN /\ bundleLast' = [op |-> "Load", arg |-> path, err |-> err]
          /\ IF err = NoError
             THEN loaded' = TRUE /\ extraFiles' = <<>>
             ELSE UNCHANGED <<loaded, extraFiles>>
    /\ UNCHANGED nonBundleVars

\* b.extraFiles[name] = data
putFile(files, name, data) ==
    [n \in DOMAIN files \cup {name} |-> IF n = name THEN data ELSE files[n]]

\* b.AddExtraFile(name, data)
AddExtraFile(name, data) ==
    /\ loaded
    /\ Cardinality(DOMAIN extraFiles \cup {name}) <= MaxFiles
    /\ LET err == addExtraFileError(name)
       IN /\ bundleLast' = [op |-> "AddExtraFile", arg |-> name, err |-> err]
          /\ IF err = NoError
             THEN extraFiles' = putFile(extraFiles, name, data)
             ELSE UNCHANGED extraFiles
    /\ UNCHANGED <<loaded, nonBundleVars>>

(***************************************************************************)
(* runc.RelaxOCISpec: config.json of the guest bundle is read, relaxed     *)
(* and written back.  An OCI spec is a record of the fields the function   *)
(* reads or writes and of fields it has no reason to touch: the version,   *)
(* the namespaces and the memory limit.  A pointer is a set of at most one *)
(* value, a nil slice the empty sequence, NoLimit and NoSeccomp the nil    *)
(* pointers of the two fields whose contents are not looked at.            *)
(***************************************************************************)
NilPtr == {}
NoLimit == "nil"
NoSeccomp == "nil"
ResolvConf == <<"/etc/resolv.conf">>

Deref(ptr) == CHOOSE x \in ptr : TRUE

\* specs.LinuxDeviceCgroup{Allow: true, Access: "rwm"}
AllowAllDevices == [allow |-> TRUE, access |-> "rwm"]
DenyAllDevices == [allow |-> FALSE, access |-> "rwm"]

\* the mount RelaxOCISpec appends
ResolvMount == [destination |-> ResolvConf, type |-> "bind",
                source |-> ResolvConf, options |-> <<"rbind", "ro">>]
ProcMount == [destination |-> <<"/proc">>, type |-> "proc",
              source |-> <<"proc">>, options |-> <<>>]
CustomResolvMount == [destination |-> ResolvConf, type |-> "bind",
                      source |-> <<"/custom/resolv.conf">>, options |-> <<>>]
MountValues == {ProcMount, CustomResolvMount}

MountLists == UNION {[1..n -> MountValues] : n \in 0..MaxMounts}

\* specs.LinuxResources: the device rules and one other limit
ResourceValues ==
    [devices : {<<>>, <<DenyAllDevices>>}, memory : {NoLimit, "1GiB"}]

\* specs.Linux
LinuxValues ==
    [resources : {NilPtr} \cup {{r} : r \in ResourceValues},
     readonlyPaths : {<<>>, <<"/proc/bus">>},
     maskedPaths : {<<>>, <<"/proc/kcore">>},
     seccomp : {NoSeccomp, "SCMP_ACT_ERRNO"},
     namespaces : {<<>>, <<"pid">>}]

\* specs.Spec
OCISpecs ==
    [version : {"1.0.0"},
     linux : {NilPtr} \cup {{l} : l \in LinuxValues},
     mounts : MountLists]

\* &specs.Linux{}
EmptyLinux == [resources |-> NilPtr, readonlyPaths |-> <<>>,
               maskedPaths |-> <<>>, seccomp |-> NoSeccomp,
               namespaces |-> <<>>]

hasResolv(mounts) ==
    \E i \in 1..Len(mounts) : mounts[i].destination = ResolvConf

\* the limits of a spec beside the device rules
limitsOf(spec) ==
    IF spec.linux = NilPtr \/ Deref(spec.linux).resources = NilPtr
    THEN NoLimit
    ELSE Deref(Deref(spec.linux).resources).memory

\* a relaxation that keeps the limits the spec had beside the device rules
relax_keepLimits(spec) ==
    LET linux == IF spec.linux = NilPtr THEN EmptyLinux ELSE Deref(spec.linux)
    IN [spec EXCEPT
          !.linux = {[linux EXCEPT
                        !.resources = {[devices |-> <<AllowAllDevices>>,
                                        memory |-> limitsOf(spec)]},
                        !.readonlyPaths = <<>>,
                        !.maskedPaths = <<>>,
                        !.seccomp = NoSeccomp]},
          !.mounts = IF hasResolv(spec.mounts) THEN spec.mounts
                     ELSE Append(spec.mounts, ResolvMount)]

\* what RelaxOCISpec does to the spec it has read
relax(spec) ==
    LET linux == IF spec.linux = NilPtr THEN EmptyLinux ELSE Deref(spec.linux)
    IN [spec EXCEPT
          !.linux = {[linux EXCEPT
                        !.resources = {[devices |-> <<AllowAllDevices>>,
                                        memory |-> NoLimit]},
                        !.readonlyPaths = <<>>,
                        !.maskedPaths = <<>>,
                        !.seccomp = NoSeccomp]},
          !.mounts = IF hasResolv(spec.mounts) THEN spec.mounts
                     ELSE Append(spec.mounts, ResolvMount)]

\* no config.json in the bundle directory yet
OCIInit ==
    /\ config = NilPtr
    /\ relaxLast = [op |-> "none", err |-> FALSE]

\* writeSpec(bundlePath, spec)
writeSpec(spec) ==
    /\ config' = {spec}
    /\ relaxLast' = [op |-> "writeSpec", err |-> FALSE]
    /\ UNCHANGED nonOciVars

\* RelaxOCISpec(ctx, bundlePath)
RelaxOCISpec ==
    /\ IF config = NilPtr
       THEN /\ relaxLast' = [op |-> "RelaxOCISpec", err |-> TRUE]
            /\ UNCHANGED config
       ELSE /\ config' = {relax(Deref(config))}
            /\ relaxLast' = [op |-> "RelaxOCISpec", err |-> FALSE]
    /\ UNCHANGED nonOciVars

\* no handler has sent a frame or returned
StreamInit ==
    /\ frames = [s \in Subs |-> <<>>]
    /\ hcause = [s \in Subs |-> "none"]
    /\ atCancel = [s \in Subs |-> [taken |-> FALSE, queue |-> <<>>, sent |-> 0]]

(***************************************************************************)
(* CNI metrics: process-wide atomic counters, each Add and each Load one   *)
(* step, and a Snapshot that loads them one after the other.               *)
(***************************************************************************)
Recorders == 1..MaxRecords

\* the duration a recording call is given, in milliseconds
Durations == {1}

MetricFields ==
    {"SetupAttempts", "SetupSuccesses", "SetupFailures", "ResourceConflicts",
     "TeardownAttempts", "TeardownSuccesses", "TeardownFailures",
     "IPAMLeaksDetected", "TotalSetupTimeNs", "TotalTeardownTimeNs"}

\* the counters Snapshot loads into the struct literal, in the order of the
\* code: the two attempt counters first, then the fields of the literal
SnapshotLoads ==
    <<"SetupAttempts", "TeardownAttempts", "SetupSuccesses", "SetupFailures",
      "ResourceConflicts", "TeardownSuccesses", "TeardownFailures",
      "IPAMLeaksDetected">>

\* positions of the Snapshot call after its loads
SnapAvgSetup == Len(SnapshotLoads) + 1
SnapAvgTeardown == Len(SnapshotLoads) + 2
SnapReturned == Len(SnapshotLoads) + 3

\* an average is the total over the attempts, kept as the two numbers
NoAvg == [total |-> 0, attempts |-> 0]

MetricsSnapshot ==
    [SetupAttempts |-> 0, SetupSuccesses |-> 0, SetupFailures |-> 0,
     ResourceConflicts |-> 0, TeardownAttempts |-> 0, TeardownSuccesses |-> 0,
     TeardownFailures |-> 0, IPAMLeaksDetected |-> 0,
     AvgSetupTimeMs |-> NoAvg, AvgTeardownTimeMs |-> NoAvg]

NoArgs == [success |-> FALSE, conflict |-> FALSE, duration |-> 0]

MetricInit ==
    /\ metrics = [f \in MetricFields |-> 0]
    /\ recpc = [r \in Recorders |-> "idle"]
    /\ recArgs = [r \in Recorders |-> NoArgs]
    /\ snappc = 0
    /\ snap = MetricsSnapshot
    /\ snapQuiet = FALSE

snapshotting == snappc \in 1..SnapAvgTeardown

\* atomic.Int64.Add on one counter, by recorder r, who moves on to pc
Add(r, f, n, pc) ==
    /\ metrics' = [metrics EXCEPT ![f] = @ + n]
    /\ recpc' = [recpc EXCEPT ![r] = pc]
    /\ snapQuiet' = (snapQuiet /\ ~snapshotting)
    /\ UNCHANGED <<snappc, snap, nonMetricVars>>

RecordSetup_attempts(r, success, conflict, duration) ==
    /\ recpc[r] = "idle"
    /\ recArgs' = [recArgs EXCEPT ![r] = [success |-> success,
                       conflict |-> conflict, duration |-> duration]]
    /\ Add(r, "SetupAttempts", 1, "setup_time")

RecordSetup_time(r) ==
    /\ recpc[r] = "setup_time"
    /\ Add(r, "TotalSetupTimeNs", recArgs[r].duration, "setup_result")
    /\ UNCHANGED recArgs

RecordSetup_result(r) ==
    /\ recpc[r] = "setup_result"
    /\ Add(r, IF recArgs[r].success THEN "SetupSuccesses" ELSE "SetupFailures",
           1, IF recArgs[r].conflict THEN "setup_conflict" ELSE "returned")
    /\ UNCHANGED recArgs

RecordSetup_conflict(r) ==
    /\ recpc[r] = "setup_conflict"
    /\ Add(r, "ResourceConflicts", 1, "returned")
    /\ UNCHANGED recArgs

RecordTeardown_attempts(r, success, duration) ==
    /\ recpc[r] = "idle"
    /\ recArgs' = [recArgs EXCEPT ![r] = [success |-> success,
                       conflict |-> FALSE, duration |-> duration]]
    /\ Add(r, "TeardownAttempts", 1, "teardown_time")

RecordTeardown_time(r) ==
    /\ recpc[r] = "teardown_time"
    /\ Add(r, "TotalTeardownTimeNs", recArgs[r].duration, "teardown_result")
    /\ UNCHANGED recArgs

RecordTeardown_result(r) ==
    /\ recpc[r] = "teardown_result"
    /\ Add(r, IF recArgs[r].success THEN "TeardownSuccesses"
                                    ELSE "TeardownFailures", 1, "returned")
    /\ UNCHANGED recArgs

RecordIPAMLeak(r) ==
    /\ recpc[r] = "idle"
    /\ Add(r, "IPAMLeaksDetected", 1, "returned")
    /\ UNCHANGED recArgs

recording(r) == recpc[r] \notin {"idle", "returned"}

\* a call of Snapshot begins: nothing is loaded yet
Snapshot_call ==
    /\ snappc \in {0, SnapReturned}
    /\ snappc' = 1
    /\ snap' = MetricsSnapshot
    /\ snapQuiet' = (\A r \in Recorders : ~recording(r))
    /\ UNCHANGED <<metrics, recpc, recArgs, nonMetricVars>>

\* one atomic.Int64.Load, into the field of the same name
Snapshot_load ==
    /\ snappc \in 1..Len(SnapshotLoads)
    /\ snap' = [snap EXCEPT ![SnapshotLoads[snappc]] =
                                metrics[SnapshotLoads[snappc]]]
    /\ snappc' = snappc + 1
    /\ UNCHANGED <<metrics, recpc, recArgs, snapQuiet, nonMetricVars>>

Snapshot_avgSetup ==
    /\ snappc = SnapAvgSetup
    /\ snap' = IF snap.SetupAttempts > 0
               THEN [snap EXCEPT !.AvgSetupTimeMs =
                        [total |-> metrics["TotalSetupTimeNs"],
                         attempts |-> snap.SetupAttempts]]
               ELSE snap
    /\ snappc' = SnapAvgTeardown
    /\ UNCHANGED <<metrics, recpc, recArgs, snapQuiet, nonMetricVars>>

Snapshot_avgTeardown ==
    /\ snappc = SnapAvgTeardown
    /\ snap' = IF snap.TeardownAttempts > 0
               THEN [snap EXCEPT !.AvgTeardownTimeMs =
                        [total |-> metrics["TotalTeardownTimeNs"],
                         attempts |-> snap.TeardownAttempts]]
               ELSE snap
    /\ snappc' = SnapReturned
    /\ UNCHANGED <<metrics, recpc, recArgs, snapQuiet, nonMetricVars>>

HostInit ==
    /\ VMInit /\ TaskInit /\ LockInit /\ EventInit /\ NetInit /\ BundleInit
    /\ OCIInit /\ StreamInit /\ WaitInit /\ MetricInit

Init == StdioInit(FALSE) /\ FlowInit /\ ExitInit /\ LifeInit /\ HostInit

\* the same with the history of every queue recorded
InitHistory ==
    StdioInit(TRUE) /\ FlowInit /\ ExitInit /\ LifeInit /\ HostInit

(***************************************************************************)
(* Specifications.  They differ in the callers that are followed and in    *)
(* the bounds the actions are instantiated with.                           *)
(***************************************************************************)
\* the manager under direct callers and Unregister, with the history of
\* every queue
FanNext ==
    \/ \E st \in Streams : Register({st})
    \/ \E st \in Streams : fanOutReader_read(st, MaxChunks, {1})
    \/ \E st \in Streams : fanOutReader_readErr(st)
    \/ \E st \in Streams : fanOutReader_data(st)
    \/ \E st \in Streams : fanOutReader_eof(st)
    \/ \E s \in Subs, st \in Streams : subscribe_lookup(s, st, "direct")
    \/ \E s \in Subs : subscribe_locked(s)
    \/ \E s \in Subs : sendBufferedData(s)
    \/ \E s \in Subs : cleanup(s)
    \/ Unregister_remove
    \/ Unregister_markExited
    \/ Unregister_closeSubs
    \/ \E s \in Subs : caller_recv(s)
    \/ \E s \in Subs : caller_done(s)

SpecFan == InitHistory /\ [][FanNext]_vars

\* one ReadStdout handler against the fan-out task and Unregister
StreamNext ==
    \/ Register({"stdout"})
    \/ fanOutReader_read("stdout", WaitChunks, {1})
    \/ fanOutReader_readErr("stdout")
    \/ fanOutReader_data("stdout")
    \/ fanOutReader_eof("stdout")
    \/ subscribe_lookup(1, "stdout", "rpc")
    \/ subscribe_locked(1)
    \/ sendBufferedData(1)
    \/ Unregister_remove
    \/ Unregister_markExited
    \/ Unregister_closeSubs
    \/ \E ok \in BOOLEAN : streamOutput_recv(1, ok)
    \/ streamOutput_closed(1)
    \/ streamOutput_cancel(1)
    \/ \E ok \in BOOLEAN : drainAndClose_recv(1, ok)
    \/ drainAndClose_empty(1)

SpecStream == Init /\ [][StreamNext]_vars

\* Unregister against the stdout fan-out task and two subscribe calls
OrderNext ==
    \/ Register({"stdout"})
    \/ fanOutReader_read("stdout", MaxChunks, {1})
    \/ fanOutReader_readErr("stdout")
    \/ fanOutReader_data("stdout")
    \/ fanOutReader_eof("stdout")
    \/ \E s \in {1, 2} : subscribe_lookup(s, "stdout", "direct")
    \/ \E s \in {1, 2} : subscribe_locked(s)
    \/ \E s \in {1, 2} : sendBufferedData(s)
    \/ \E s \in {1, 2} : cleanup(s)
    \/ Unregister_remove
    \/ Unregister_markExited
    \/ Unregister_closeSubs
    \/ \E s \in {1, 2} : caller_recv(s)
    \/ \E s \in {1, 2} : caller_done(s)

SpecOrder == Init /\ [][OrderNext]_vars

\* fan-out of the stdout stream to its subscribers, which read, stop reading
\* or leave (the stderr stream runs the same code through its streamConfig)
FanOutNext ==
    \/ Register({"stdout"})
    \/ \E st \in Streams : fanOutReader_read(st, MaxChunks, {1})
    \/ \E st \in Streams : fanOutReader_readErr(st)
    \/ \E st \in Streams : fanOutReader_data(st)
    \/ \E st \in Streams : fanOutReader_eof(st)
    \/ \E s \in Subs : subscribe_lookup(s, "stdout", "direct")
    \/ \E s \in Subs : subscribe_locked(s)
    \/ \E s \in Subs : sendBufferedData(s)
    \/ \E s \in Subs : cleanup(s)
    \/ \E s \in Subs : caller_recv(s)
    \/ \E s \in Subs : caller_done(s)

SpecFanOut == Init /\ [][FanOutNext]_vars

\* the ring buffers under chunks of 1 and of ReadBufSize bytes
BufNext ==
    \/ \E st \in Streams : Register({st})
    \/ \E st \in Streams : fanOutReader_read(st, MaxAppends, {1, ReadBufSize})
    \/ \E st \in Streams : fanOutReader_readErr(st)
    \/ \E st \in Streams : fanOutReader_data(st)
    \/ \E st \in Streams : fanOutReader_eof(st)
    \/ \E st \in Streams : fpc[st] # "nil" /\ subscribe_lookup(1, st, "direct")
    \/ subscribe_locked(1)

SpecBuf == Init /\ [][BufNext]_vars

\* the barrier: WaitForIOComplete beside fan-out, subscribers that use
\* their done-fn, and Unregister
WaitNext ==
    \/ \E st \in Streams : Register({st})
    \/ \E st \in Streams : fanOutReader_readErr(st)
    \/ \E st \in Streams : fanOutReader_eof(st)
    \/ \E s \in 1..WaitSubs, st \in Streams :
          fpc[st] # "nil" /\ subscribe_lookup(s, st, "direct")
    \/ \E s \in Subs : subscribe_locked(s)
    \/ \E s \in Subs : sendBufferedData(s)
    \/ \E s \in Subs : cleanup(s)
    \/ Unregister_remove
    \/ Unregister_markExited
    \/ Unregister_closeSubs
    \/ WaitForIOComplete_lookup
    \/ WaitForIOComplete_fanOut
    \/ WaitForIOComplete_subsDone
    \/ WaitForIOComplete_tick
    \/ WaitForIOComplete_timeout
    \/ \E s \in Subs : caller_recv(s)
    \/ \E s \in Subs : caller_done(s)

SpecWait == Init /\ [][WaitNext]_vars

\* WaitForIOComplete is scheduled and its timer runs
FairSpecWait ==
    /\ SpecWait
    /\ WF_vars(WaitForIOComplete_fanOut)
    /\ WF_vars(WaitForIOComplete_tick)
    /\ WF_vars(WaitForIOComplete_timeout)

\* the stream handlers of the service beside fan-out and Unregister
ServiceNext ==
    \/ \E st \in Streams : Register({st})
    \/ \E st \in Streams : fanOutReader_read(st, WaitChunks, {1})
    \/ \E st \in Streams : fanOutReader_readErr(st)
    \/ \E st \in Streams : fanOutReader_data(st)
    \/ \E st \in Streams : fanOutReader_eof(st)
    \/ \E s \in 1..WaitSubs, st \in Streams :
          fpc[st] # "nil" /\ subscribe_lookup(s, st, "rpc")
    \/ \E s \in Subs : subscribe_locked(s)
    \/ \E s \in Subs : sendBufferedData(s)
    \/ Unregister_remove
    \/ Unregister_markExited
    \/ Unregister_closeSubs
    \/ \E s \in Subs, ok \in BOOLEAN : streamOutput_recv(s, ok)
    \/ \E s \in Subs : streamOutput_closed(s)
    \/ \E s \in Subs : streamOutput_cancel(s)
    \/ \E s \in Subs, ok \in BOOLEAN : drainAndClose_recv(s, ok)
    \/ \E s \in Subs : drainAndClose_empty(s)
    \/ WaitForIOComplete_lookup
    \/ WaitForIOComplete_fanOut
    \/ WaitForIOComplete_subsDone
    \/ WaitForIOComplete_tick
    \/ WaitForIOComplete_timeout

SpecService == Init /\ [][ServiceNext]_vars

\* the exit of the registered process, from the guest to containerd; its
\* subscribers may or may not call their done-fn
FlowNext ==
    \/ \E st \in Streams : Register({st})
    \/ \E st \in Streams : fanOutReader_readErr(st)
    \/ \E st \in Streams : fanOutReader_eof(st)
    \/ \E s \in 1..WaitSubs, st \in Streams :
          fpc[st] # "nil" /\ subscribe_lookup(s, st, "direct")
    \/ \E s \in Subs : subscribe_locked(s)
    \/ \E s \in Subs : sendBufferedData(s)
    \/ \E s \in Subs : cleanup(s)
    \/ \E s \in Subs : caller_done(s)
    \/ process_exit
    \/ epc = "exited" /\ WaitForIOComplete_lookup
    \/ WaitForIOComplete_fanOut
    \/ WaitForIOComplete_subsDone
    \/ WaitForIOComplete_tick
    \/ WaitForIOComplete_timeout
    \/ guest_publish
    \/ host_receive
    \/ host_tick
    \/ forwarder_complete
    \/ host_forward

SpecFlow == Init /\ [][FlowNext]_vars

\* goroutines are scheduled, timers run, and the pipes of a process that
\* has exited reach end of file; no subscriber and no IOForwarder is
\* required to make progress
FairSpecFlow ==
    /\ SpecFlow
    /\ \A st \in Streams : WF_vars(fanOutReader_eof(st))
    /\ \A st \in Streams : WF_vars(epc # "running" /\ fanOutReader_readErr(st))
    /\ WF_vars(epc = "exited" /\ WaitForIOComplete_lookup)
    /\ WF_vars(WaitForIOComplete_fanOut)
    /\ WF_vars(WaitForIOComplete_tick)
    /\ WF_vars(WaitForIOComplete_timeout)
    /\ WF_vars(guest_publish)
    /\ WF_vars(host_receive)
    /\ WF_vars(host_tick)
    /\ WF_vars(host_forward)

\* the exit tracker under starts, exits and the exit handler
ExitNext ==
    \/ \E p \in Procs : Subscribe(p)
    \/ \E p \in Procs : container_Start(p)
    \/ \E p \in Procs : container_StartFails(p)
    \/ \E p \in Procs : HandleStart(p)
    \/ \E p \in Procs : Cancel(p)
    \/ \E p \in Procs : NotifyExit(p)
    \/ ShouldDelayInitExit
    \/ handler_waitSignal
    \/ handler_publishInit
    \/ \E p \in Procs : handler_publishExec(p)
    \/ \E p \in Procs : NotifyExecExit(p)

SpecExit == Init /\ [][ExitNext]_vars

\* starts and exits of the processes, without the handler of the exits
AttribNext ==
    \/ \E p \in Procs : Subscribe(p)
    \/ \E p \in Procs : container_Start(p)
    \/ \E p \in Procs : container_StartFails(p)
    \/ \E p \in Procs : HandleStart(p)
    \/ \E p \in Procs : Cancel(p)
    \/ \E p \in Procs : NotifyExit(p)

SpecAttrib == Init /\ [][AttribNext]_vars

\* the init of c is started again while another container's process is
\* registered under the same pid
RestartNext ==
    \/ \E p \in Procs : Subscribe(p)
    \/ Subscribe_restart
    \/ other_HandleStart(pidOf(0))
    \/ \E p \in Procs : container_Start(p)
    \/ \E p \in Procs : HandleStart(p)
    \/ NotifyExit(0)

SpecRestart == Init /\ [][RestartNext]_vars

\* the tracker with the starts that give up and call DecrementExecCount
CountNext ==
    \/ ExitNext
    \/ \E p \in Procs : DecrementExecCount(p)

SpecCount == Init /\ [][CountNext]_vars

\* execs are registered and notified while the init exit is delayed, other
\* callers ask again and the container is cleaned up
SignalNext ==
    \/ tracker_HandleStart
    \/ tracker_ShouldDelayInitExit
    \/ tracker_NotifyExecExit
    \/ Cleanup

SpecSignal == Init /\ [][SignalNext]_vars

\* registrations of the key beside one Unregister call and one subscriber
RegNext ==
    \/ \E i, o \in BOOLEAN : Manager_Register(i, o)
    \/ \E g \in Pios : Manager_fanOutReader_data(g, MaxBytes)
    \/ \E g \in Pios : Manager_fanOutReader_eof(g)
    \/ Manager_Unregister_remove(1)
    \/ Manager_Unregister_markExited(1)
    \/ Manager_Unregister_closeSubs(1)
    \/ Manager_Unregister_readStdin(1)
    \/ Manager_Unregister_closeStdin(1)
    \/ Manager_subscribe_lookup(1)
    \/ Manager_subscribe_locked(1)

SpecReg == Init /\ [][RegNext]_vars

\* several Unregister calls, sequential and concurrent, beside registrations
\* and one subscriber
UnregNext ==
    \/ \E i \in BOOLEAN : Manager_Register(i, TRUE)
    \/ \E g \in Pios : Manager_fanOutReader_eof(g)
    \/ \E u \in Calls : Manager_Unregister_remove(u)
    \/ \E u \in Calls : Manager_Unregister_markExited(u)
    \/ \E u \in Calls : Manager_Unregister_closeSubs(u)
    \/ \E u \in Calls : Manager_Unregister_readStdin(u)
    \/ \E u \in Calls : Manager_Unregister_closeStdin(u)
    \/ Manager_subscribe_lookup(1)
    \/ Manager_subscribe_locked(1)

SpecUnreg == Init /\ [][UnregNext]_vars

\* subscribers that come and go over a registration of the key, its
\* Unregister and the next registration, each calling its done-fn once
LifeNext ==
    \/ mprocesses = 0 /\ Manager_Register(FALSE, TRUE)
    \/ \E g \in Pios : Manager_fanOutReader_eof(g)
    \/ Manager_Unregister_remove(1)
    \/ Manager_Unregister_markExited(1)
    \/ Manager_Unregister_closeSubs(1)
    \/ Manager_Unregister_readStdin(1)
    \/ Manager_Unregister_closeStdin(1)
    \/ \E s \in Calls : Manager_subscribe_lookup(s)
    \/ \E s \in Calls : Manager_subscribe_locked(s)
    \/ \E s \in Calls : lsub[s].calls = 0 /\ Manager_doneFunc(s)
    \/ \E s \in Calls : Manager_removeSubscriber_lookup(s)
    \/ \E s \in Calls : Manager_removeSubscriber_remove(s)

SpecLife == Init /\ [][LifeNext]_vars

\* the subscribers of one registration, calling their done-fn again and
\* again, while their cleanup runs and the process is unregistered
DoneNext ==
    \/ nextPio = 0 /\ Manager_Register(FALSE, TRUE)
    \/ \E g \in Pios : Manager_fanOutReader_eof(g)
    \/ Manager_Unregister_remove(1)
    \/ Manager_Unregister_markExited(1)
    \/ Manager_Unregister_closeSubs(1)
    \/ Manager_Unregister_readStdin(1)
    \/ Manager_Unregister_closeStdin(1)
    \/ \E s \in Calls : Manager_subscribe_lookup(s)
    \/ \E s \in Calls : Manager_subscribe_locked(s)
    \/ \E s \in Calls : Manager_doneFunc(s)
    \/ \E s \in Calls : Manager_removeSubscriber_lookup(s)
    \/ \E s \in Calls : Manager_removeSubscriber_remove(s)

SpecDone == Init /\ [][DoneNext]_vars

\* the stdin calls and a subscribe call before, during and after the one
\* registration of the key
StdinNext ==
    \/ \E i \in BOOLEAN : nextPio = 0 /\ Manager_Register(i, TRUE)
    \/ \E g \in Pios : Manager_fanOutReader_eof(g)
    \/ Manager_Unregister_remove(1)
    \/ Manager_Unregister_markExited(1)
    \/ Manager_Unregister_closeSubs(1)
    \/ Manager_Unregister_readStdin(1)
    \/ Manager_Unregister_closeStdin(1)
    \/ Manager_subscribe_lookup(1)
    \/ Manager_subscribe_locked(1)
    \/ \E len \in 1..MaxBytes : Manager_stdin_lookup("write", len)
    \/ Manager_stdin_lookup("close", 0)
    \/ Manager_WriteStdin
    \/ Manager_CloseStdin

SpecStdin == Init /\ [][StdinNext]_vars

\* one VM instance under concurrent Start calls, device registrations and
\* Shutdown
VMNext ==
    \/ \E c \in Starters : Instance_Start(c)
    \/ \E c \in Starters : Instance_Start_ready(c)
    \/ \E c \in Starters : Instance_Start_error(c)
    \/ Instance_Shutdown
    \/ AddDisk("disk")
    \/ AddTAPNIC("tap")

SpecVM == Init /\ [][VMNext]_vars

\* concurrent Create calls on one shim
TaskNext ==
    \/ \E c \in Creators : service_Create_try(c)
    \/ \E c \in Creators : service_Create_refused(c)
    \/ \E c \in Creators : service_Create_ok(c)
    \/ \E c \in Creators : service_Create_err(c)

SpecTask == Init /\ [][TaskNext]_vars

\* concurrent operations taking the two mutexes
LockNext ==
    \/ \E t \in Tasks, op \in Ops : service_operation(t, op)
    \/ \E t \in Tasks : containerMu_Lock(t)
    \/ \E t \in Tasks : containerMu_Unlock(t)
    \/ \E t \in Tasks : controllerMu_Lock(t)
    \/ \E t \in Tasks : controllerMu_Unlock(t)
    \/ \E t \in Tasks : slowOperation(t)

SpecLock == Init /\ [][LockNext]_vars

\* producers, the consumer and shutdown of the host events channel
EventNext ==
    \/ \E p \in Producers : send_enter(p)
    \/ \E p \in Producers : send_check(p)
    \/ \E p \in Producers : send_write(p)
    \/ forward_receive
    \/ shutdown_setClosed
    \/ shutdown_close

SpecEvents == Init /\ [][EventNext]_vars

\* concurrent EnsureNetworkResources calls for one container id
NetNext ==
    \/ \E c \in Callers : ensureNetworkResources_lookup(c)
    \/ \E c \in Callers, out \in CNIOutcomes : ensureNetworkResources_setup(c, out)
    \/ \E c \in Callers : ensureNetworkResources_complete(c)
    \/ \E c \in Callers : ensureNetworkResources_wait(c)

SpecNet == Init /\ [][NetNext]_vars

\* a bundle is loaded and extra files are added to it
BundleNext ==
    \/ \E path \in {<<>>, <<"/", "a">>}, outcome \in LoadOutcomes :
          Load(path, outcome)
    \/ \E name \in Names, data \in FileData : AddExtraFile(name, data)

SpecBundle == Init /\ [][BundleNext]_vars

\* a config.json is written and relaxed
OCINext ==
    \/ \E spec \in OCISpecs : writeSpec(spec)
    \/ RelaxOCISpec

SpecOCI == Init /\ [][OCINext]_vars

(***************************************************************************)
(* Properties.                                                             *)
(***************************************************************************)
\* a subscribe call has returned an attached (counted) subscription
attached(s) == spc[s] \in {"active", "cleaned"}
\* the subscribe call has returned and the queue it returned is closed
finished(s) == closed[s] /\ spc[s] \in {"active", "cleaned", "synthetic"}
hasEOF(q) == \E i \in 1..Len(q) : q[i].eof
Returned == {"retAbsent", "retDone", "retTimeout"}

\* C1: every subscriber's queue gets exactly one EOF chunk and nothing after
\* it: no chunk is ever placed behind an EOF chunk, and a queue that has been
\* closed has had its EOF chunk placed.
C1_ExactlyOneEOFLast ==
    \A s \in Subs :
        /\ \A i \in 1..Len(placed[s]) : placed[s][i].eof => i = Len(placed[s])
        /\ finished(s) => hasEOF(placed[s])

\* C2: in the order of publication no TaskExit of an exec process follows the
\* TaskExit of the init process of its container.
C2_InitExitAfterExecExits ==
    \A i \in 1..Len(published) :
        isInit(published[i]) => i = Len(published)

\* C3: the data chunks placed on one subscriber's queue are in the order the
\* fan-out task read them, buffered chunks before chunks read later.
C3_QueueOrderIsReadOrder ==
    \A s \in Subs : \A i, j \in 1..Len(placed[s]) :
        (i < j /\ ~placed[s][i].eof /\ ~placed[s][j].eof)
            => placed[s][i].seq < placed[s][j].seq

C7_HandlerSignalsDone ==
    \A s \in Subs :
        (skind[s] = "rpc" /\ hpc[s] = "ret" /\ attached(s)) => sdone[s]

\* C8: a fan-out task never waits for a subscriber: with a chunk or an EOF in
\* hand its delivery step can be taken whatever the state of the queues, and
\* the step after the source's EOF or error ends the task.
C8_FanOutNeverWaits ==
    /\ [](\A st \in Streams :
            /\ fpc[st] = "chunk" => ENABLED fanOutReader_data(st)
            /\ fpc[st] = "eof" => ENABLED fanOutReader_eof(st))
    /\ [][\A st \in Streams :
            /\ (fpc[st] = "chunk" /\ fpc'[st] # "chunk") => fpc'[st] = "read"
            /\ (fpc[st] = "eof" /\ fpc'[st] # "eof")
                  => (fpc'[st] = "done" /\ wg' = wg - 1)]_vars

\* terminated while a subscriber's queue was full and without the EOF chunk
C8_Witness ==
    \E st \in Streams : \E s \in Subs :
        /\ fpc[st] = "done"
        /\ InSeq(s, subsList[st])
        /\ Len(ch[s]) = QueueCap
        /\ ~hasEOF(ch[s])

\* C9: a data chunk delivered while the stream has subscribers is appended to
\* the queue of every subscriber of the stream with room and changes no
\* other queue: it is dropped exactly for the subscribers whose queue is full.
C9_PlacedWhereRoom ==
    [][\A st \in Streams :
         (fpc[st] = "chunk" /\ fpc'[st] = "read" /\ subsList[st] # <<>>)
           => \A s \in Subs :
                ch'[s] = IF InSeq(s, subsList[st]) /\ Len(ch[s]) < QueueCap
                         THEN Append(ch[s], DataChunk(nread[st], flen[st]))
                         ELSE ch[s]]_vars

\* two subscribers of one stream, the last chunk read placed for the one and
\* dropped for the other, whose queue is full
C9_Witness ==
    \E st \in Streams : \E s, t \in Subs :
        /\ InSeq(s, subsList[st]) /\ InSeq(t, subsList[st])
        /\ fpc[st] = "read" /\ nread[st] > 0
        /\ Len(ch[s]) = QueueCap
        /\ \A i \in 1..Len(ch[s]) : ch[s][i].seq < nread[st]
        /\ Len(ch[t]) > 0 /\ ch[t][Len(ch[t])].seq = nread[st]

\* C10: the byte count of each ring buffer is the sum of its chunks and at
\* most maxBufferedBytes; an append keeps the newest chunks, dropping whole
\* chunks from the oldest end and no more of them than the cap requires.
C10_RingBufferBounded ==
    /\ [](\A st \in Streams :
            /\ bufBytes[st] = SumLen(buf[st])
            /\ bufBytes[st] <= maxBufferedBytes)
    /\ [][\A st \in Streams :
            (fpc[st] \in {"chunk", "eof"} /\ fpc'[st] # fpc[st]
                /\ subsList[st] = <<>>)
              => LET d == IF fpc[st] = "chunk"
                          THEN DataChunk(nread[st], flen[st]) ELSE EOFChunk
                     all == Append(buf[st], d)
                     k == Len(all) - Len(buf'[st])
                 IN /\ k >= 0
                    /\ buf'[st] = SubSeq(all, k + 1, Len(all))
                    /\ k > 0 => SumLen(SubSeq(all, k, Len(all))) > maxBufferedBytes
         ]_vars

\* a ring buffer nobody drained that has lost its oldest chunk
C10_Witness ==
    \E st \in Streams :
        /\ \A s \in Subs : spc[s] = "idle"
        /\ buf[st] # <<>>
        /\ Head(buf[st]).seq > 1
        /\ bufBytes[st] > maxBufferedBytes - ReadBufSize

\* C11: a subscribe call that finds the process not exited takes the whole
\* ring buffer of its stream (the buffer is left empty, byte count 0) and
\* places every chunk it took on the new subscriber's queue: no buffered
\* chunk is dropped.
C11_AttachReceivesBuffer ==
    [][\A s \in Subs :
         /\ (spc[s] = "found" /\ spc'[s] # "found" /\ ~exited)
              => /\ pending'[s] = buf[sstream[s]]
                 /\ buf'[sstream[s]] = <<>>
                 /\ bufBytes'[sstream[s]] = 0
         /\ (spc[s] = "send" /\ pending'[s] # pending[s])
              => ch'[s] = Append(ch[s], Head(pending[s]))]_vars

lifeState == <<mprocesses, nextPio, pio, sink, lpanicked>>

\* C12: a Register call creates a processIO only for a key that is absent,
\* and the key then maps to it; no processIO is ever left behind unmapped
\* without an Unregister call having taken it.
C12_RegisterRejectsDuplicate ==
    /\ [][nextPio' # nextPio
            => (mprocesses = 0 /\ mprocesses' = nextPio')]_vars
    /\ [](\A g \in Pios :
            g <= nextPio => (g = mprocesses \/ \E u \in Calls : unreg[u].pio = g))

\* C13: an Unregister call that finds the key absent returns and changes
\* nothing; every processIO is taken by at most one Unregister call, its exit
\* signal is closed at most once, every subscriber channel is closed at most
\* once, and nothing panics.
C13_UnregisterIdempotent ==
    /\ [][\A u \in Calls :
            (unreg[u].pc = "idle" /\ unreg'[u].pc # "idle" /\ mprocesses = 0)
              => /\ unreg' = [unreg EXCEPT ![u].pc = "retAbsent"]
                 /\ UNCHANGED <<lifeState, lsub, scall>>]_vars
    /\ [](~lpanicked)
    /\ [](\A g \in Pios :
            /\ pio[g].exitChanCloses <= 1
            /\ Cardinality({u \in Calls : unreg[u].pio = g}) <= 1)
    /\ [](\A s \in Calls : lsub[s].chCloses <= 1)

\* a second Unregister call returned while the first one closed the exit
\* signal and the subscriber's channel once
C13_Witness ==
    \E u, v \in Calls :
        /\ unreg[u].pc = "done" /\ unreg[v].pc = "retAbsent"
        /\ pio[unreg[u].pio].exitChanCloses = 1
        /\ lsub[1].pc = "active" /\ lsub[1].pio = unreg[u].pio
        /\ lsub[1].chCloses = 1

\* C14: a Register call on an absent key maps the key to a new processIO in
\* the state of a first registration, and no later step of a subscriber of
\* another registration (done-fn, cleanup) changes a processIO that is not
\* the subscriber's own.
C14_ReRegisterIsFresh ==
    /\ [][nextPio' # nextPio
            => /\ mprocesses' = nextPio'
               /\ \E i, o \in BOOLEAN : pio'[nextPio'] = FreshPIO(i, o)
               /\ sink'[nextPio'] = FreshSink]_vars
    /\ [][\A s \in Calls : \A g \in Pios :
            (lsub[s].pc \in {"active", "removing", "cleaned"}
                /\ lsub'[s] # lsub[s] /\ lsub[s].pio # g)
              => pio'[g] = pio[g]]_vars

\* the key is registered again after a completed Unregister; a subscriber
\* of the first registration has been cleaned up by a removeSubscriber that
\* found the second processIO, which still has its own subscriber
C14_Witness ==
    /\ nextPio > 1 /\ mprocesses = nextPio
    /\ unreg[1].pc = "done"
    /\ \E s, t \in Calls :
        /\ lsub[s].pio < nextPio /\ lsub[s].pc = "cleaned" /\ lsub[s].rm = nextPio
        /\ lsub[t].pio = nextPio /\ InSeq(t, pio[nextPio].stdoutSubs)

\* C15: a subscribe, WriteStdin or CloseStdin call that finds the key absent
\* returns NotFound at once, changes no state of the manager, and goes no
\* further.
C15_UnregisteredKeyNotFound ==
    [][/\ (scall'.k # scall.k /\ mprocesses = 0)
            => /\ scall'.pc = "ret" /\ scall'.code = "NotFound" /\ scall'.n = 0
               /\ UNCHANGED <<lifeState, lsub, unreg>>
       /\ \A s \in Calls :
            /\ (lsub[s].pc = "idle" /\ lsub'[s].pc # "idle" /\ mprocesses = 0)
                 => /\ lsub' = [lsub EXCEPT ![s].pc = "notFound"]
                    /\ UNCHANGED <<lifeState, scall, unreg>>
            /\ lsub[s].pc = "notFound" => lsub'[s] = lsub[s]]_vars

\* after the Unregister of a process whose output was buffered, a subscribe
\* call and a stdin call both returned NotFound
C15_Witness ==
    /\ mprocesses = 0 /\ nextPio > 0
    /\ unreg[1].pc = "done"
    /\ pio[unreg[1].pio].stdoutBuf > 0
    /\ lsub[1].pc = "notFound"
    /\ scall.pc = "ret" /\ scall.code = "NotFound"

\* a stdin call runs its critical section on a process that is registered
stdinStep == scall.pc = "found" /\ scall'.pc = "ret" /\ mprocesses = scall.pio

\* WriteStdin as the claims state it: FailedPrecondition and nothing written
\* when stdin is closed or absent, the number of bytes written otherwise
WriteStdinContract(g) ==
    IF pio[g].stdinClosed \/ ~pio[g].stdin
    THEN scall'.code = "FailedPrecondition" /\ scall'.n = 0 /\ sink' = sink
    ELSE /\ scall'.n = sink'[g].written - sink[g].written
         /\ scall'.n <= scall.len
         /\ scall'.code = "OK" => scall'.n = scall.len

\* C16: on a registered process WriteStdin fails with FailedPrecondition and
\* writes nothing when stdin is closed or absent and returns the number of
\* bytes written otherwise; the first CloseStdin succeeds and every later
\* one fails with FailedPrecondition.
C16_StdinContract ==
    [][stdinStep
         => LET g == scall.pio
            IN /\ scall.op = "write" => WriteStdinContract(g)
               /\ scall.op = "close"
                    => scall'.code = IF pio[g].closeCalls = 0 THEN "OK"
                                     ELSE "FailedPrecondition"]_vars

\* C16, as the code has it: CloseStdin fails with FailedPrecondition once a
\* CloseStdin has succeeded; before that it closes the sink, if there is
\* one, and succeeds unless the sink's Close reports an error, which it
\* returns, leaving stdin open for a later call.
C16_StdinContractWithSinkErrors ==
    [][/\ stdinStep
         => LET g == scall.pio
            IN /\ scall.op = "write" => WriteStdinContract(g) /\ pio' = pio
               /\ scall.op = "close"
                    => IF pio[g].stdinClosed
                       THEN /\ scall'.code = "FailedPrecondition"
                            /\ sink' = sink /\ pio'[g].stdinClosed
                       ELSE IF pio[g].stdin
                       THEN /\ sink'[g].closes = sink[g].closes + 1
                            /\ \/ scall'.code = "OK" /\ pio'[g].stdinClosed
                               \/ scall'.code = "CloseFailed" /\ ~pio'[g].stdinClosed
                       ELSE /\ scall'.code = "OK" /\ pio'[g].stdinClosed
                            /\ sink' = sink
       /\ \A g \in Pios : pio[g].stdinClosed => pio'[g].stdinClosed]_vars

\* the second CloseStdin on the registered process failed with
\* FailedPrecondition after the first one closed the sink
C16_Witness ==
    /\ mprocesses # 0 /\ mprocesses = scall.pio
    /\ scall.pc = "ret" /\ scall.op = "close" /\ scall.k > 1
    /\ scall.code = "FailedPrecondition"
    /\ pio[scall.pio].closeCalls > 1 /\ pio[scall.pio].stdin
    /\ sink[scall.pio].closes = 1

\* C17: the first call of a done-fn closes done, every later call changes
\* nothing but the number of calls made; done is closed at most once, the
\* subscriber group of a processIO counts its subscribers that have not been
\* cleaned up (one decrement per subscription), never goes below zero, and
\* nothing panics.
C17_DoneFnOnce ==
    /\ [][\A s \in Calls :
            lsub'[s].calls # lsub[s].calls
              => /\ UNCHANGED <<lifeState, unreg, scall>>
                 /\ lsub' = [lsub EXCEPT ![s].calls = @ + 1,
                               ![s].doneOnce = (lsub[s].pc # "synthetic"),
                               ![s].doneCloses =
                                   IF lsub[s].pc # "synthetic" THEN 1 ELSE 0]]_vars
    /\ [](~lpanicked)
    /\ [](\A s \in Calls : lsub[s].doneCloses <= 1)
    /\ [](\A g \in Pios :
            /\ pio[g].subscriberWg >= 0
            /\ pio[g].subscriberWg =
                 Cardinality({s \in Calls : lsub[s].pio = g
                                  /\ lsub[s].pc \in {"active", "removing"}}))

\* a subscriber's done-fn was called again after its cleanup had brought the
\* subscriber group back to zero
C17_Witness ==
    \E s \in Calls :
        /\ lsub[s].pc = "cleaned" /\ lsub[s].calls = MaxCalls
        /\ lsub[s].doneCloses = 1
        /\ pio[lsub[s].pio].subscriberWg = 0

\* the Start call of process p holds a subscription
subscribing(p) == startpc[p] \in {"subscribed", "launched", "failed"}

\* C18: a HandleStart step deletes its subscription and nothing else from
\* the active set; with pid 0 or an exit of the pid collected it hands the
\* exits back and leaves running and the exec counter alone; otherwise it
\* hands back none, appends the process once to running[pid], and adds one to
\* the exec counter if and only if the process is an exec.
C18_HandleStartCases ==
    [][\A p \in Procs :
         (startpc[p] \in {"launched", "failed"}
             /\ startpc'[p] \notin {"launched", "failed", "cancelled"})
           => LET pid == IF startpc[p] = "failed" THEN 0 ELSE pidOf(p)
              IN /\ activeSubscriptions' = activeSubscriptions \ {p}
                 /\ IF pid = 0 \/ pid \in subExits[p]
                    THEN /\ running' = running
                         /\ runningExecs' = runningExecs
                         /\ execEntry' = execEntry
                         /\ startpc'[p] = IF pid \in subExits[p] THEN "early"
                                          ELSE "notStarted"
                         /\ pid \in subExits[p] => exitpc'[p] = "notified"
                    ELSE /\ running' = [running EXCEPT ![pid] = Append(@, p)]
                         /\ runningExecs' = runningExecs
                                              + (IF isInit(p) THEN 0 ELSE 1)
                         /\ startpc'[p] = "registered"
                         /\ exitpc'[p] = exitpc[p]]_vars

\* one exec handed back its early exit and was not registered, another exec
\* was registered and counted
C18_Witness ==
    \E p, q \in Procs :
        /\ ~isInit(p) /\ startpc[p] = "early" /\ running[pidOf(p)] = <<>>
        /\ ~isInit(q) /\ startpc[q] = "registered" /\ running[pidOf(q)] = <<q>>
        /\ runningExecs = 1
        /\ activeSubscriptions = {}

\* C19: the active subscriptions are exactly those of the Start calls between
\* their Subscribe and their HandleStart or Cancel, so the set is empty once
\* every Start call has made one of the two calls; an exit notified while a
\* subscription is not in the set is not recorded for it.
C19_SubscriptionLifetime ==
    /\ [](activeSubscriptions = {p \in Procs : subscribing(p)})
    /\ []((\A p \in Procs : ~subscribing(p)) => activeSubscriptions = {})
    /\ [][\A p \in Procs :
            p \notin activeSubscriptions => subExits'[p] = subExits[p]]_vars

\* a subscription was cancelled, another one went through HandleStart, the
\* set is empty, and the exit of the process started was not recorded for
\* the cancelled subscription
C19_Witness ==
    \E p, q \in Procs :
        /\ startpc[p] = "cancelled" /\ startpc[q] = "registered"
        /\ live[q] = "exited" /\ pidOf(q) \notin subExits[p]
        /\ activeSubscriptions = {}

minMargin == 12

\* C21: HostIOWaitTimeout is greater than SubscriberWaitTimeout, and is at
\* least SubscriberWaitTimeout plus 12 seconds; so a host wait that ends on
\* its cap has lasted at least 12 seconds longer than any guest wait.
C21_HostCapMargin ==
    /\ HostIOWaitTimeout > SubscriberWaitTimeout
    /\ HostIOWaitTimeout >= SubscriberWaitTimeout + minMargin
    /\ (epc = "forwarded" /\ ~fwdComplete)
         => /\ hclock >= SubscriberWaitTimeout + minMargin
            /\ hclock >= gclock + minMargin

\* the guest waited for its whole cap and the host forwarded on its own cap
C21_Witness ==
    /\ epc = "forwarded" /\ ~fwdComplete
    /\ gclock = SubscriberWaitTimeout
    /\ hclock = HostIOWaitTimeout

\* position of a VM state in the order New, Starting, Running, Shutdown
vmRank(st) ==
    CASE st = vmStateNew -> 0
      [] st = vmStateStarting -> 1
      [] st = vmStateRunning -> 2
      [] st = vmStateShutdown -> 3

addRequest == vmLast.op \in {"AddDisk", "AddTAPNIC"}

C24_CreateCompareAndSwap ==
    /\ [][\A c \in Creators :
            (createpc[c] = "idle" /\ createpc'[c] # "idle")
               => IF taskState = StateIdle
                  THEN taskState' = StateCreating /\ createpc'[c] = "creating"
                  ELSE taskState' = taskState /\ createpc'[c] = "refused"]_vars
    /\ [](Cardinality({c \in Creators : createpc[c] = "creating"}) <= 1)
    /\ [](\A c \in Creators :
            createpc[c] = "FailedPrecondition"
               => /\ createReported[c] = createSeen[c]
                  /\ createReported[c] # StateIdle)

\* C25: a Create that fails after TryStartCreating succeeded puts the state
\* machine back to StateIdle, the state it had before the call; the state is
\* StateCreating only while a Create call is at work, and after the failure
\* a Create call finds StateIdle and passes TryStartCreating.
C25_FailedCreateRestoresState ==
    /\ [][\A c \in Creators :
            (createpc[c] = "creating" /\ createpc'[c] = "error")
               => /\ createSeen[c] = StateIdle
                  /\ taskState' = StateIdle]_vars
    /\ [](taskState = StateCreating
            <=> \E c \in Creators : createpc[c] = "creating")
    /\ []((\E c \in Creators : createpc[c] = "error")
            /\ (\A c \in Creators : createpc[c] \notin {"creating", "created"})
            => taskState = StateIdle)

\* a Create failed, and a later Create passed TryStartCreating and created
\* the container
C25_Witness ==
    \E c, d \in Creators :
        /\ createpc[c] = "error"
        /\ createpc[d] = "created" /\ createSeen[d] = StateIdle
        /\ taskState = StateCreated

\* task t waits for a mutex that another task holds
blockedOn(t) ==
    CASE NextStep(t) = "containerMu.Lock" /\ containerMu # 0 -> containerMu
      [] NextStep(t) = "controllerMu.Lock" /\ controllerMu # 0 -> controllerMu
      [] OTHER -> 0

setupMakers(e) ==
    {c \in Callers : netEntry[c] = e /\ netpc[c] \in {"adding", "completing"}}

\* C28: of the calls that are under way together for one container id one
\* runs CNI ADD: every entry made has one maker, at most one call is in its
\* setup at a time, a call that arrives while an entry is in flight waits
\* for it and returns the result or error its maker returns, and the entry
\* is out of the in-flight map once its setup is complete.
C28_SingleCNIAdd ==
    /\ [](Cardinality({c \in Callers : netpc[c] \in {"adding", "completing"}})
            <= 1)
    /\ [](inFlight # 0 <=> setupMakers(inFlight) # {})
    /\ [][\A c \in Callers :
            (netpc[c] = "idle" /\ netpc'[c] # "idle")
               => IF inFlight # 0
                  THEN netpc'[c] = "waiting" /\ netEntry'[c] = inFlight
                       /\ nextSetup' = nextSetup
                  ELSE netpc'[c] = "adding" /\ inFlight' = netEntry'[c]]_vars
    /\ [](\A c \in Callers :
            netpc[c] = "returned"
               => /\ setups[netEntry[c]].done
                  /\ netRet[c] = setups[netEntry[c]].outcome
                  /\ netRet[c] \in CNIOutcomes)
    /\ [](\A c, d \in Callers :
            (netpc[c] = "returned" /\ netpc[d] = "returned"
               /\ netEntry[c] = netEntry[d]) => netRet[c] = netRet[d])
    /\ [](\A e \in Setups : setups[e].done => inFlight # e)

\* three calls under way together: one ran CNI ADD, which failed, and the
\* two that waited returned its error; the in-flight map is empty
C28_Witness ==
    /\ nextSetup = 1 /\ inFlight = 0
    /\ \A c \in Callers : netpc[c] = "returned" /\ netRet[c] = "err"

\* a name the bundle must refuse: empty, "config.json", with a path
\* separator in it, or a relative component
illegalName(name) ==
    \/ name = <<>>
    \/ name = ConfigJSON
    \/ \E i \in 1..Len(name) : name[i] = "/"
    \/ name = <<".">> \/ name = <<".", ".">>

\* Load of the empty path is refused with an error; AddExtraFile refuses
\* exactly the illegal names other than the name "/", which it accepts; a
\* refused AddExtraFile leaves the extra files as they were, and an accepted
\* one adds its name
AddExtraFileRefusals ==
    /\ [](bundleLast.op = "Load" /\ bundleLast.arg = <<>>
            => bundleLast.err # NoError)
    /\ [](bundleLast.op = "AddExtraFile"
            => (bundleLast.err # NoError
                  <=> illegalName(bundleLast.arg) /\ bundleLast.arg # <<"/">>))
    /\ [][(bundleLast'.op = "AddExtraFile" /\ bundleLast'.err # NoError)
            => extraFiles' = extraFiles]_vars
    /\ [](bundleLast.op = "AddExtraFile" /\ bundleLast.err = NoError
            => bundleLast.arg \in DOMAIN extraFiles)

\* C29: Load of the empty path, and AddExtraFile of an illegal name, are
\* refused with an error that is an InvalidArgument error, and a refused
\* AddExtraFile leaves the bundle's extra files unchanged.
C29_InvalidArgumentErrors ==
    /\ [](bundleLast.op = "Load" /\ bundleLast.arg = <<>>
            => IsInvalidArgument(bundleLast.err))
    /\ [](bundleLast.op = "AddExtraFile" /\ illegalName(bundleLast.arg)
            => IsInvalidArgument(bundleLast.err))
    /\ [][(bundleLast'.op = "AddExtraFile" /\ illegalName(bundleLast'.arg))
            => extraFiles' = extraFiles]_vars

\* RelaxOCISpec clears seccomp and the masked and read-only paths, sets the
\* device rules to allow-all, appends the resolv.conf mount only if no mount
\* has that destination, and keeps the mounts, version and namespaces.
RelaxOCISpecEffects ==
    [][(relaxLast'.op = "RelaxOCISpec" /\ ~relaxLast'.err)
        => LET old == Deref(config)
               new == Deref(config')
               linux == Deref(new.linux)
           IN /\ linux.seccomp = NoSeccomp
              /\ linux.maskedPaths = <<>>
              /\ linux.readonlyPaths = <<>>
              /\ Deref(linux.resources).devices = <<AllowAllDevices>>
              /\ new.mounts = IF hasResolv(old.mounts) THEN old.mounts
                              ELSE Append(old.mounts, ResolvMount)
              /\ new.version = old.version
              /\ linux.namespaces = IF old.linux = NilPtr THEN <<>>
                                    ELSE Deref(old.linux).namespaces]_vars

\* C30: RelaxOCISpec changes only what the relaxation names: seccomp, masked
\* and read-only paths are cleared, the device rules are allow-all, the
\* resolv.conf mount is appended only if absent, and every other part of the
\* spec, the limits beside the device rules included, is unchanged.
C30_RelaxFrame ==
    [][(relaxLast'.op = "RelaxOCISpec" /\ ~relaxLast'.err)
        => Deref(config') = relax_keepLimits(Deref(config))]_vars

\* C31: no chunk is sent on a subscriber queue that has been closed: in every
\* interleaving of subscribe (its delivery of the buffered chunks after the
\* lock is released included), fan-out and Unregister, every enqueue on a
\* queue happens before the queue is closed, so no sender panics.
C31_NoSendOnClosedQueue ==
    /\ [](~panicked)
    /\ [][\A s \in Subs : Len(ch'[s]) > Len(ch[s]) => ~closed[s]]_vars

\* a subscriber in one of the two subscriber lists of the processIO
inSubsList(s) == \E st \in Streams : InSeq(s, subsList[st])

drained(s) == SubSeq(frames[s], atCancel[s].sent + 1, Len(frames[s]))

eofFrames(s) == {i \in 1..Len(frames[s]) : frames[s][i].eof}

\* C33: a handler whose context is cancelled sends the chunks that were in
\* its queue at that moment, in order, before it returns; it returns only on
\* an empty queue, an EOF chunk, a closed queue or a send failure, the only
\* two that can leave a chunk of that moment unsent being the EOF chunk and
\* the send failure.
C33_DrainOnCancel ==
    /\ [][\A s \in Subs :
            (hpc[s] = "drain" /\ hpc'[s] = "ret")
               => \/ hcause'[s] = "empty" /\ ch[s] = <<>> /\ ~closed[s]
                  \/ hcause'[s] = "closed" /\ ch[s] = <<>> /\ closed[s]
                  \/ hcause'[s] = "eof" /\ ch[s] # <<>> /\ Head(ch[s]).eof
                  \/ hcause'[s] = "sendErr" /\ ch[s] # <<>>]_vars
    /\ [](\A s \in Subs :
            atCancel[s].taken
               => /\ \A i \in 1..Len(drained(s)) :
                        i <= Len(atCancel[s].queue)
                           => drained(s)[i] = atCancel[s].queue[i]
                  /\ (hpc[s] = "ret" /\ hcause[s] \in {"empty", "closed"})
                        => Len(drained(s)) >= Len(atCancel[s].queue)
                  /\ (hpc[s] = "drain" /\ Len(drained(s)) < Len(atCancel[s].queue))
                        => ch[s] # <<>>)

\* a cancelled handler has returned on the empty queue, having sent the two
\* chunks that were queued when it was cancelled
C33_Witness ==
    \E s \in Subs :
        /\ hpc[s] = "ret" /\ hcause[s] = "empty"
        /\ atCancel[s].taken /\ Len(atCancel[s].queue) = 2
        /\ drained(s) = atCancel[s].queue

\* C34: a handler that ended on an EOF chunk or on a closed queue has sent
\* exactly one frame with eof set, that frame is the last of the stream, and
\* a handler that has returned sends nothing more.
C34_OneFinalEOFFrame ==
    /\ [](\A s \in Subs :
            (hpc[s] = "ret" /\ hcause[s] \in {"eof", "closed"})
               => eofFrames(s) = {Len(frames[s])} /\ frames[s] # <<>>)
    /\ [][\A s \in Subs : hpc[s] = "ret" => frames'[s] = frames[s]]_vars
    /\ [](\A s \in Subs : hpc[s] # "ret" => eofFrames(s) = {})

\* one handler ended on a closed queue after data frames (the EOF chunk
\* of the fan-out task found the queue full), with the EOF frame last
C34_Witness ==
    \E s \in Subs :
        /\ hpc[s] = "ret" /\ hcause[s] = "closed"
        /\ Len(frames[s]) >= 2
        /\ ~frames[s][1].eof /\ frames[s][Len(frames[s])].eof

\* the execs registered by HandleStart whose NotifyExecExit is still to come
countedExecs ==
    {p \in Procs : ~isInit(p) /\ startpc[p] = "registered" /\ exitpc[p] # "done"}

\* C35: the running-exec count of the container is never negative and is the
\* number of execs that HandleStart registered and for which NotifyExecExit
\* or DecrementExecCount has not been called, also when an exec's exit was
\* handed back as an early exit or its start failed.
C35_ExecCountExact ==
    [](runningExecs >= 0 /\ runningExecs = Cardinality(countedExecs))

\* C36: once every exec that was running has had its NotifyExecExit call,
\* every wait signal ShouldDelayInitExit returned is closed, also when
\* Cleanup or another ShouldDelayInitExit ran in between: no waiter is left
\* on a signal that nothing will close.
C36_WaitSignalClosed ==
    [](execsNotified = execsStarted
         => \A i \in 1..Len(waitChans) : waitChans[i])

\* process p is in the list running[pid] of some pid
inRunning(p) == \E pid \in Pids : InSeq(p, running[pid])

\* C37: with no pid reused, the exit of a started process is attributed once:
\* after Subscribe, HandleStart with the pid and the one NotifyExit of that
\* pid, in either order, either HandleStart handed the exit back as an early
\* exit and the process was never registered, or the process was registered
\* and NotifyExit returned it; never both, never neither.
C37_ExitAttributedOnce ==
    /\ [](\A p \in Procs :
            (live[p] = "exited" /\ startpc[p] \in {"early", "registered"})
               => /\ ~inRunning(p)
                  /\ exitpc[p] # "none"
                  /\ startpc[p] = "early" => pidOf(p) \in subExits[p])
    /\ [][\A p \in Procs :
            /\ (inRunning(p) /\ ~inRunning(p)')
                  => startpc[p] = "registered" /\ live[p] = "alive"
                     /\ live'[p] = "exited" /\ exitpc[p] = "none"
                     /\ exitpc'[p] = "notified"
            /\ (startpc[p] # "early" /\ startpc'[p] = "early")
                  => live[p] = "exited" /\ ~inRunning(p)' /\ exitpc[p] = "none"
            /\ startpc[p] = "early" => startpc'[p] = "early" /\ ~inRunning(p)'
            /\ (live[p] = "exited" /\ ~inRunning(p)) => ~inRunning(p)']_vars

\* one exec handed its exit back as an early exit, another was registered
\* and returned by NotifyExit
C37_Witness ==
    \E p, q \in Procs :
        /\ startpc[p] = "early" /\ live[p] = "exited"
        /\ startpc[q] = "registered" /\ live[q] = "exited" /\ ~isInit(q)
        /\ exitpc[q] # "none"

\* the step in which Subscribe(c) is called for a restart of the init of c
restartStep == startpc[0] = "registered" /\ startpc'[0] = "subscribed"

\* C38: Subscribe(c) for a restart takes only the entries of c out of
\* running[c.Pid()]: the entries of other containers at that pid and the
\* lists of the other pids stay; an exit of that pid that arrives before
\* HandleStart is then not matched to an entry of c but collected by the
\* subscription, and HandleStart hands it back as an early exit.
C38_RestartSubscribe ==
    /\ [][restartStep
            => /\ \A pid \in Pids \ {pidOf(0)} : running'[pid] = running[pid]
               /\ \A i \in 1..Len(running'[pidOf(0)]) :
                     ~ofContainer(running'[pidOf(0)][i])
               /\ InSeq(otherProc(pidOf(0)), running[pidOf(0)])
                     => InSeq(otherProc(pidOf(0)), running'[pidOf(0)])
               /\ 0 \in activeSubscriptions']_vars
    /\ [](startpc[0] \in {"subscribed", "launched"}
            => 0 \in activeSubscriptions /\ ~InSeq(0, running[pidOf(0)]))
    /\ [][(startpc[0] \in {"subscribed", "launched"}
             /\ live[0] = "alive" /\ live'[0] = "exited")
            => /\ pidOf(0) \in subExits'[0]
               /\ exitpc'[0] = exitpc[0]
               /\ startpc'[0] = startpc[0]]_vars
    /\ [][(startpc[0] = "launched" /\ startpc'[0] # "launched")
            => IF pidOf(0) \in subExits[0]
               THEN startpc'[0] = "early" /\ ~InSeq(0, running'[pidOf(0)])
               ELSE startpc'[0] = "registered"]_vars

\* the init was subscribed for a restart while its old process ran; the exit
\* of that pid came before HandleStart and is in the subscription, matched
\* to no entry of c
C38_Witness ==
    /\ startpc[0] = "subscribed"
    /\ live[0] = "exited"
    /\ pidOf(0) \in subExits[0]
    /\ exitpc[0] = "none"
    /\ ~InSeq(0, running[pidOf(0)])

\* C39: the stdin sink of a process is closed at most once across CloseStdin
\* and Unregister, in every interleaving: no Close call is made on a sink
\* that CloseStdin has closed, by CloseStdin or by Unregister.
C39_StdinClosedOnce ==
    [][\A g \in Pios :
         sink'[g].closes > sink[g].closes => ~pio[g].stdinClosed]_vars

MetricNext ==
    \/ \E r \in Recorders :
          \/ \E success \in BOOLEAN, conflict \in BOOLEAN, d \in Durations :
                RecordSetup_attempts(r, success, conflict, d)
          \/ RecordSetup_time(r)
          \/ RecordSetup_result(r)
          \/ RecordSetup_conflict(r)
          \/ \E success \in BOOLEAN, d \in Durations :
                RecordTeardown_attempts(r, success, d)
          \/ RecordTeardown_time(r)
          \/ RecordTeardown_result(r)
          \/ RecordIPAMLeak(r)
    \/ Snapshot_call
    \/ Snapshot_load
    \/ Snapshot_avgSetup
    \/ Snapshot_avgTeardown

SpecMetrics == Init /\ [][MetricNext]_vars

\* C40: every snapshot Snapshot returns, one taken concurrently with
\* RecordSetup and RecordTeardown calls included, has successes plus failures
\* at most the attempts, for setups and for teardowns, and has them equal
\* when no recording call was under way during the Snapshot call.
C40_SnapshotConsistent ==
    [](snappc = SnapReturned =>
         /\ snap.SetupSuccesses + snap.SetupFailures <= snap.SetupAttempts
         /\ snap.TeardownSuccesses + snap.TeardownFailures
               <= snap.TeardownAttempts
         /\ snapQuiet =>
               /\ snap.SetupSuccesses + snap.SetupFailures
                     = snap.SetupAttempts
               /\ snap.TeardownSuccesses + snap.TeardownFailures
                     = snap.TeardownAttempts)

====
